---- MODULE Spec2Model ----
(***************************************************************************)
(* Resource resolution of pycmor (src/pycmor/core/resource_locator.py):    *)
(* the five-tier priority chain user path -> XDG cache -> remote fetch ->  *)
(* packaged data -> vendored submodule, over a small tree filesystem.      *)
(***************************************************************************)
EXTENDS Integers, Sequences, FiniteSets, TLC

\* Bounds of the model.
NumCallers == 2     \* callers that may run locate()
NumVersions == 1    \* distinct `version` arguments a locator is built with
NumFiles == 2       \* files in the tree that copytree copies into the cache
NumCandidates == 2  \* institutions / activities a CV entry lists at most
MaxIndex == 2       \* largest index written into a well-formed variant label

Callers == 1..NumCallers

\* Python's None, where the value is otherwise a string.
None == "None"
\* Python's None, where the value is otherwise a path.
NoPath == <<>>

(***************************************************************************)
(* Locator classes and their class attributes.                             *)
(***************************************************************************)
LocatorClasses ==
    {"ResourceLocator", "CMIP6CVLocator", "CMIP7CVLocator", "CMIP6TableLocator",
     "CMIP7TableLocator", "CMIP6MetadataLocator", "CMIP7MetadataLocator"}

CVLocators == {"CMIP6CVLocator", "CMIP7CVLocator"}
TableLocators == {"CMIP6TableLocator", "CMIP7TableLocator"}

DEFAULT_VERSION(cls) ==
    CASE cls = "CMIP6CVLocator" -> "6.2.58.64"
      [] cls = "CMIP7CVLocator" -> "src-data"
      [] cls = "CMIP6TableLocator" -> "main"
      [] cls = "CMIP7TableLocator" -> "main"
      [] cls = "CMIP7MetadataLocator" -> "v1.2.2.2"
      [] OTHER -> None

\* The resource_name the constructor hands to ResourceLocator.__init__; the
\* base class takes it as an argument ("test-resource" stands for any name).
RESOURCE_NAME(cls) ==
    CASE cls = "CMIP6CVLocator" -> "cmip6-cvs"
      [] cls = "CMIP7CVLocator" -> "cmip7-cvs"
      [] cls = "CMIP6TableLocator" -> "cmip6-tables"
      [] cls = "CMIP7TableLocator" -> "cmip7-tables"
      [] cls = "CMIP6MetadataLocator" -> "cmip6-metadata"
      [] cls = "CMIP7MetadataLocator" -> "cmip7_metadata"
      [] OTHER -> "test-resource"

GIT_REPO_URL(cls) ==
    CASE cls = "CMIP6CVLocator" -> "https://github.com/WCRP-CMIP/CMIP6_CVs.git"
      [] cls = "CMIP7CVLocator" -> "https://github.com/WCRP-CMIP/CMIP7-CVs.git"
      [] cls = "CMIP6TableLocator" -> "https://github.com/PCMDI/cmip6-cmor-tables.git"
      [] OTHER -> None

\* VENDORED_SUBDIR, as the path components below the repository root.
VENDORED_SUBDIR(cls) ==
    CASE cls = "CMIP6CVLocator" -> <<"cmip6-cmor-tables", "CMIP6_CVs">>
      [] cls = "CMIP7CVLocator" -> <<"CMIP7-CVs">>
      [] cls = "CMIP6TableLocator" -> <<"cmip6-cmor-tables", "Tables">>
      [] OTHER -> NoPath

\* hasattr(self, "REPO_SUBDIR") and self.REPO_SUBDIR
REPO_SUBDIR(cls) ==
    IF cls = "CMIP6TableLocator" THEN "Tables" ELSE None

\* The `version` arguments a locator is constructed with: None, and tags.
TagNames == <<"v1.0.0", "v1.2.0.0", "6.2.50.0", "v2.0.0">>
VersionArgs == {None} \cup {TagNames[i] : i \in 1..(NumVersions - 1)}

\* self.version after __init__: `version or self.DEFAULT_VERSION` in the
\* CV, table and CMIP7 metadata locators, the argument itself otherwise.
version_of(cls, arg) ==
    IF cls \in {"ResourceLocator", "CMIP6MetadataLocator"}
    THEN arg
    ELSE IF arg = None THEN DEFAULT_VERSION(cls) ELSE arg

(***************************************************************************)
(* Paths are sequences of components.                                      *)
(***************************************************************************)
Parent(p) == SubSeq(p, 1, Len(p) - 1)

IsPrefix(p, q) == Len(p) <= Len(q) /\ SubSeq(q, 1, Len(p)) = p

\* XDG_CACHE_HOME is unset (None) or names a directory.
XdgValues == {None, "/xdg"}

get_cache_directory(xdg) ==
    IF xdg # None THEN <<xdg, "pycmor">> ELSE <<"~", ".cache", "pycmor">>

base_get_cache_path(cache_base, resource_name, version) ==
    IF version # None
    THEN cache_base \o <<resource_name, version>>
    ELSE cache_base \o <<resource_name>>

metadata_get_cache_path(cache_base, resource_name, version) ==
    IF version # None
    THEN cache_base \o <<resource_name, version, "metadata.json">>
    ELSE cache_base \o <<resource_name, "metadata.json">>


\* get_cache_path that resolves into the repository checkout.
get_cache_path_in_checkout(cls, xdg, version) ==
    IF cls \in {"CMIP6CVLocator", "CMIP7CVLocator", "CMIP6TableLocator"}
    THEN <<"repo_root">> \o
         (CASE cls = "CMIP6CVLocator" -> <<"cmip6-cmor-tables", "CMIP6_CVs">>
            [] cls = "CMIP7CVLocator" -> <<"CMIP7-CVs">>
            [] OTHER -> <<"cmip6-cmor-tables", "Tables">>)
    ELSE IF cls = "CMIP7MetadataLocator"
    THEN metadata_get_cache_path(get_cache_directory(xdg), RESOURCE_NAME(cls), version)
    ELSE base_get_cache_path(get_cache_directory(xdg), RESOURCE_NAME(cls), version)

get_cache_path(cls, xdg, version) ==
    IF cls = "CMIP7MetadataLocator"
    THEN metadata_get_cache_path(get_cache_directory(xdg), RESOURCE_NAME(cls), version)
    ELSE base_get_cache_path(get_cache_directory(xdg), RESOURCE_NAME(cls), version)

\* cache_path.parent / f"{self.version}_experiments.json"
experiments_file(cache_path, version) ==
    Parent(cache_path) \o <<version \o "_experiments.json">>

UserPath == <<"user", "resource">>
RepoRoot == <<"repo_root">>
PackagedCmip7 == <<"pycmor", "data", "cmip7">>

get_packaged_path(cls) ==
    IF cls = "CMIP7TableLocator" THEN PackagedCmip7 ELSE NoPath

\* CVLocator._get_vendored_path / TableLocator._get_vendored_path:
\* repo_root / self.VENDORED_SUBDIR
vendored_location(cls) ==
    IF VENDORED_SUBDIR(cls) = NoPath THEN NoPath ELSE RepoRoot \o VENDORED_SUBDIR(cls)

(***************************************************************************)
(* The filesystem: a function from paths to entries.  A directory entry    *)
(* counts the files copied into it (n); its modelled children are the      *)
(* paths below it.  A file entry holds its text.                           *)
(***************************************************************************)
Absent == [type |-> "absent", n |-> 0, text |-> ""]
Dir(k) == [type |-> "dir", n |-> k, text |-> ""]
File(t) == [type |-> "file", n |-> 0, text |-> t]

\* Path.exists()
exists(fs, p) == p \in DOMAIN fs /\ fs[p].type # "absent"

\* Path.is_dir()
is_dir(fs, p) == p \in DOMAIN fs /\ fs[p].type = "dir"

Children(fs, p) == {q \in DOMAIN fs : Len(q) = Len(p) + 1 /\ Parent(q) = p /\ exists(fs, q)}

\* any(cache_path.iterdir())
any_iterdir(fs, p) == fs[p].n > 0 \/ Children(fs, p) # {}

\* cache_path.stat().st_size
st_size(fs, p) == IF fs[p].text = "" THEN 0 ELSE 1

\* Path.mkdir(parents=True, exist_ok=True): p and every missing ancestor
\* become (empty) directories.
mkdir_parents(fs, p) ==
    [q \in DOMAIN fs |->
        IF IsPrefix(q, p) /\ fs[q].type = "absent" THEN Dir(0) ELSE fs[q]]

(***************************************************************************)
(* File texts and json.load.                                               *)
(***************************************************************************)
ValidMetadataText == "{\"Header\": {}, \"Compound Name\": {\"atmos.tas.tavg-h2m-hxy-u.mon.GLB\": {}}}"
TruncatedMetadataText == "{\"Header\": {}, \"Compound Name\": {\"atmos.tas"
\* Metadata whose header names the data request version it was exported from.
VersionedMetadataText == "{\"Header\": {\"dreq content version\": \"v1.2.2.2\"}, \"Compound Name\": {}}"

MetadataTexts ==
    {"",
     "not valid json {",
     "\\xff\\xfe (bytes that are not UTF-8)",
     TruncatedMetadataText,
     ValidMetadataText,
     "{\"Compound Name\": {\"test\": \"data\"}, \"Header\": {}}",
     "{\"Header\": {}}",
     "{\"wrong\": \"structure\"}",
     "[\"Header\"]",
     "[1, 2]",
     "\"the Header of a table\"",
     "123",
     "null"}

\* What json.load(f) does with a text: the exception it raises (None when it
\* returns), and the value it returns as its JSON type and the strings x for
\* which `x in data` is true (keys of an object, items of an array,
\* substrings of a string).
Parsed(jtype, members) == [exc |-> None, jtype |-> jtype, members |-> members]
JsonRaises(e) == [exc |-> e, jtype |-> None, members |-> {}]

json_load(t) ==
    CASE t = ValidMetadataText -> Parsed("object", {"Header", "Compound Name"})
      [] t = VersionedMetadataText -> Parsed("object", {"Header", "Compound Name"})
      [] t = "{\"Compound Name\": {\"test\": \"data\"}, \"Header\": {}}" ->
            Parsed("object", {"Header", "Compound Name"})
      [] t = "{\"Header\": {}}" -> Parsed("object", {"Header"})
      [] t = "{\"wrong\": \"structure\"}" -> Parsed("object", {"wrong"})
      [] t = "[\"Header\"]" -> Parsed("array", {"Header"})
      [] t = "[1, 2]" -> Parsed("array", {})
      [] t = "\"the Header of a table\"" -> Parsed("string", {"Header"})
      [] t = "123" -> Parsed("number", {})
      [] t = "null" -> Parsed("null", {})
      [] t = "\\xff\\xfe (bytes that are not UTF-8)" -> JsonRaises("UnicodeDecodeError")
      [] OTHER -> JsonRaises("JSONDecodeError")

\* `key in data`: TypeError when data is not a container.
Contains(data, key) ==
    IF data.jtype \in {"number", "null", "boolean"}
    THEN [exc |-> "TypeError", val |-> FALSE]
    ELSE [exc |-> None, val |-> key \in data.members]

(***************************************************************************)
(* _validate_cache: ret is the value returned, exc the exception that      *)
(* propagates out of it (None when it returns).                            *)
(***************************************************************************)
Returns(b) == [ret |-> b, exc |-> None]
Raises(e) == [ret |-> FALSE, exc |-> e]


\* base_validate_cache that accepts whatever exists.
base_validate_cache_exists_only(fs, cache_path) == exists(fs, cache_path)

\* ResourceLocator._validate_cache
base_validate_cache(fs, cache_path) ==
    IF ~exists(fs, cache_path) THEN FALSE
    ELSE IF is_dir(fs, cache_path) THEN any_iterdir(fs, cache_path)
    ELSE st_size(fs, cache_path) > 0

\* CMIP7MetadataLocator._validate_cache
metadata_validate_cache(fs, cache_path) ==
    IF ~base_validate_cache(fs, cache_path) THEN Returns(FALSE)
    ELSE IF is_dir(fs, cache_path) THEN Raises("IsADirectoryError")  \* open(cache_path, "r")
    ELSE LET data == json_load(fs[cache_path].text) IN
         IF data.exc = "JSONDecodeError" THEN Returns(FALSE)         \* except (JSONDecodeError, KeyError)
         ELSE IF data.exc # None THEN Raises(data.exc)
         ELSE LET cn == Contains(data, "Compound Name") IN
              IF cn.exc # None THEN Raises(cn.exc)
              ELSE IF cn.val THEN Returns(TRUE)
              ELSE LET hd == Contains(data, "Header") IN
                   IF hd.exc # None THEN Raises(hd.exc) ELSE Returns(hd.val)

\* validate_cache that takes no directory for a valid entry.
validate_cache_rejects_directories(cls, fs, cache_path) ==
    IF cls = "CMIP7MetadataLocator"
    THEN metadata_validate_cache(fs, cache_path)
    ELSE Returns(base_validate_cache(fs, cache_path) /\ ~is_dir(fs, cache_path))

validate_cache(cls, fs, cache_path) ==
    IF cls = "CMIP7MetadataLocator"
    THEN metadata_validate_cache(fs, cache_path)
    ELSE Returns(base_validate_cache(fs, cache_path))

(***************************************************************************)
(* State.                                                                  *)
(***************************************************************************)
VARIABLES
    locator_class,   \* the class of the locators the callers construct
    XDG_CACHE_HOME,  \* os.environ.get("XDG_CACHE_HOME")
    user_path,       \* self.user_path (NoPath when not given)
    remote,          \* what the remote / the generation command does when run
    fs,              \* the filesystem
    call,            \* per caller: the position and the outcome of its locate()
    interface,       \* a CMIP7Interface object and its last load_metadata()
    ga,              \* a GlobalAttributes object and the last call on it
    conv             \* a unit conversion: its inputs, the registry, its outcome

vars == <<locator_class, XDG_CACHE_HOME, user_path, remote, fs, call, interface, ga, conv>>

\* Where no CMIP7Interface, GlobalAttributes object or conversion exists.
NoInterface == [pc |-> "absent"]
NoAttributes == [pc |-> "absent"]
NoConversion == [pc |-> "absent"]

Tiers == <<"user", "cache", "fetch", "packaged", "vendored">>

\* What subprocess.run(..., check=True) raises (None: the command succeeded).
RemoteModes == {"ok", "nonzero_exit", "tool_missing", "os_error"}

subprocess_run(mode) ==
    CASE mode = "ok" -> None
      [] mode = "nonzero_exit" -> "CalledProcessError"   \* also a network failure of git
      [] mode = "tool_missing" -> "FileNotFoundError"
      [] OTHER -> "OSError"

\* How the class implements _download_from_git.
download_kind(cls) ==
    CASE cls = "ResourceLocator" -> "not_implemented"
      [] cls \in CVLocators -> "git"
      [] cls = "CMIP6TableLocator" -> IF GIT_REPO_URL(cls) = None THEN "returns_false" ELSE "git"
      [] cls = "CMIP7MetadataLocator" -> "export"
      [] OTHER -> "returns_false"


\* except_clauses without the final `except Exception`.
except_clauses_no_catch_all(cls) == <<"CalledProcessError">>

\* The except clauses of _download_from_git, in order.
except_clauses(cls) ==
    IF cls = "CMIP7MetadataLocator"
    THEN <<"CalledProcessError", "FileNotFoundError", "Exception">>
    ELSE <<"CalledProcessError", "Exception">>

\* isinstance(exc, clause) for the exceptions of the model.
IsInstance(exc, clause) == clause = "Exception" \/ clause = exc

Caught(cls, exc) ==
    \E i \in 1..Len(except_clauses(cls)) : IsInstance(exc, except_clauses(cls)[i])

\* The outcome of a locate() call.
Pending == [kind |-> "pending", tier |-> None, path |-> NoPath, exc |-> None]
ReturnsPath(tier, p) == [kind |-> "path", tier |-> tier, path |-> p, exc |-> None]
ReturnsNone == [kind |-> "none", tier |-> None, path |-> NoPath, exc |-> None]
RaisesOut(e) == [kind |-> "raise", tier |-> None, path |-> NoPath, exc |-> e]

\* What the cache tier found at the cache path (kept for the properties):
\* the kind of entry, a file's text, and what `cache_path.exists() and
\* self._validate_cache(cache_path)` came to.
Unchecked == [state |-> "unchecked", text |-> "", verdict |-> "unchecked"]

EntryState(f, p) ==
    IF ~exists(f, p) THEN "absent"
    ELSE IF is_dir(f, p) THEN (IF any_iterdir(f, p) THEN "nonempty_dir" ELSE "empty_dir")
    ELSE IF st_size(f, p) > 0 THEN "file" ELSE "empty_file"

Observe(f, p, valid) ==
    [state |-> EntryState(f, p),
     text |-> IF p \in DOMAIN f THEN f[p].text ELSE "",
     verdict |-> IF valid.exc # None THEN "raise"
                 ELSE IF valid.ret THEN "True" ELSE "False"]

IdleCall ==
    [pc |-> "idle", version |-> None, result |-> Pending, consulted |-> <<>>,
     seen |-> Unchecked]


\* with_repo_subdir that never appends REPO_SUBDIR.
with_repo_subdir_dropped(cls, cache_path) == cache_path

\* if hasattr(self, "REPO_SUBDIR") and self.REPO_SUBDIR: cache_path / REPO_SUBDIR
with_repo_subdir(cls, cache_path) ==
    IF REPO_SUBDIR(cls) # None THEN Append(cache_path, REPO_SUBDIR(cls)) ELSE cache_path


\* get_vendored_path that looks below a wrong repository root and so never
\* finds the submodule.
get_vendored_path_wrong_root(cls, f) ==
    IF cls = "ResourceLocator" THEN [path |-> NoPath, exc |-> "NotImplementedError"]
    ELSE [path |-> NoPath, exc |-> None]

\* _get_vendored_path of the class: the path returned (NoPath for None) or
\* the exception raised.
get_vendored_path(cls, f) ==
    IF cls = "ResourceLocator" THEN [path |-> NoPath, exc |-> "NotImplementedError"]
    ELSE IF VENDORED_SUBDIR(cls) = NoPath THEN [path |-> NoPath, exc |-> None]
    ELSE IF ~exists(f, vendored_location(cls)) THEN [path |-> NoPath, exc |-> None]
    ELSE [path |-> vendored_location(cls), exc |-> None]

\* locate(), priorities 4 and 5: the result and the tiers consulted.
later_tiers(cls, f) ==
    LET packaged_path == get_packaged_path(cls) IN
    IF packaged_path # NoPath /\ exists(f, packaged_path)
    THEN [result |-> ReturnsPath("packaged", packaged_path), consulted |-> <<"packaged">>]
    ELSE LET vendored == get_vendored_path(cls, f) IN
         [result |->
            IF vendored.exc # None THEN RaisesOut(vendored.exc)
            ELSE IF vendored.path # NoPath /\ exists(f, vendored.path)
                 THEN ReturnsPath("vendored", vendored.path)
                 ELSE ReturnsNone,
          consulted |-> <<"packaged", "vendored">>]

(***************************************************************************)
(* Initial filesystems.                                                    *)
(***************************************************************************)
CachePaths(cls, xdg) ==
    {get_cache_path(cls, xdg, version_of(cls, a)) : a \in VersionArgs}

PathsOf(cls, xdg) ==
    UNION {{SubSeq(p, 1, k) : k \in Len(get_cache_directory(xdg))..Len(p)} :
             p \in CachePaths(cls, xdg)}
    \cup (IF cls = "CMIP7MetadataLocator"
          THEN {experiments_file(get_cache_path(cls, xdg, version_of(cls, a)),
                                 version_of(cls, a)) : a \in VersionArgs}
          ELSE {})
    \cup {UserPath}
    \cup (IF get_packaged_path(cls) # NoPath THEN {get_packaged_path(cls)} ELSE {})
    \cup (IF vendored_location(cls) # NoPath THEN {vendored_location(cls)} ELSE {})

\* What may lie at a cache path before any call: nothing, a file, or (where
\* the cache entry is a directory tree) a directory, empty, partly or fully
\* populated.
SlotEntries(cls) ==
    IF cls = "CMIP7MetadataLocator"
    THEN {Absent} \cup {File(t) : t \in MetadataTexts}
    ELSE {Absent} \cup {Dir(k) : k \in {0, 1, NumFiles}}
                  \cup {File(""), File("test content")}

\* The filesystem with `slots` at the cache paths; the cache base exists
\* (__init__ creates it) and so does every directory above an existing entry.
MakeFs(cls, xdg, slots, user, packaged, vendored) ==
    [p \in PathsOf(cls, xdg) |->
        IF p = UserPath THEN (IF user THEN Dir(1) ELSE Absent)
        ELSE IF p = get_packaged_path(cls) THEN (IF packaged THEN Dir(1) ELSE Absent)
        ELSE IF p = vendored_location(cls) THEN (IF vendored THEN Dir(1) ELSE Absent)
        ELSE LET below == \E q \in DOMAIN slots :
                             q # p /\ IsPrefix(p, q) /\ slots[q].type # "absent"
             IN IF p \in DOMAIN slots
                THEN (IF below
                      THEN Dir(IF slots[p].type = "dir" THEN slots[p].n ELSE 0)
                      ELSE slots[p])
                ELSE IF p = get_cache_directory(xdg) \/ below THEN Dir(0) ELSE Absent]

InitialFilesystems(cls, xdg, up) ==
    {MakeFs(cls, xdg, slots, user, packaged, vendored) :
        slots \in [CachePaths(cls, xdg) -> SlotEntries(cls)],
        user \in (IF up = NoPath THEN {FALSE} ELSE BOOLEAN),
        packaged \in (IF get_packaged_path(cls) = NoPath THEN {FALSE} ELSE BOOLEAN),
        vendored \in (IF vendored_location(cls) = NoPath THEN {FALSE} ELSE BOOLEAN)}

Init ==
    /\ locator_class \in LocatorClasses
    /\ XDG_CACHE_HOME \in XdgValues
    /\ user_path \in {NoPath, UserPath}
    /\ remote \in (IF download_kind(locator_class) \in {"git", "export"}
                   THEN RemoteModes ELSE {"ok"})
    /\ fs \in InitialFilesystems(locator_class, XDG_CACHE_HOME, user_path)
    /\ call = [c \in Callers |-> IdleCall]
    /\ interface = NoInterface
    /\ ga = NoAttributes
    /\ conv = NoConversion

(***************************************************************************)
(* locate()                                                                *)
(***************************************************************************)
Outcome(pc, version, result, consulted, seen) ==
    [pc |-> pc, version |-> version, result |-> result, consulted |-> consulted,
     seen |-> seen]


\* early_tiers with the cache consulted before the user path.
early_tiers_cache_first(cls, f, up, cache_path) ==
    LET valid == IF exists(f, cache_path)
                 THEN validate_cache(cls, f, cache_path)
                 ELSE Returns(FALSE)
        user == up # NoPath /\ exists(f, up)
    IN [decided |-> valid.exc # None \/ valid.ret \/ user,
        result |-> IF valid.exc # None THEN RaisesOut(valid.exc)
                   ELSE IF valid.ret
                        THEN ReturnsPath("cache", with_repo_subdir(cls, cache_path))
                        ELSE IF user THEN ReturnsPath("user", up) ELSE Pending,
        consulted |-> IF valid.exc # None \/ valid.ret \/ up = NoPath
                      THEN <<"cache">> ELSE <<"cache", "user">>,
        seen |-> Observe(f, cache_path, valid)]

\* locate(), priorities 1 and 2: decided says whether locate returned (or
\* raised) there.
early_tiers(cls, f, up, cache_path) ==
    IF up # NoPath /\ exists(f, up)
    THEN [decided |-> TRUE, result |-> ReturnsPath("user", up),
          consulted |-> <<"user">>, seen |-> Unchecked]
    ELSE LET tried == IF up # NoPath THEN <<"user", "cache">> ELSE <<"cache">>
             valid == IF exists(f, cache_path)
                      THEN validate_cache(cls, f, cache_path)
                      ELSE Returns(FALSE)
         IN [decided |-> valid.exc # None \/ valid.ret,
             result |-> IF valid.exc # None THEN RaisesOut(valid.exc)
                        ELSE IF valid.ret
                             THEN ReturnsPath("cache", with_repo_subdir(cls, cache_path))
                             ELSE Pending,
             consulted |-> tried,
             seen |-> Observe(f, cache_path, valid)]

\* ResourceLocator.locate up to the call of subprocess.run in
\* _download_from_git; the whole of locate when no command is run.
locate(c, version_arg) ==
    /\ call[c].pc = "idle"
    /\ locator_class # "CMIP6MetadataLocator"
    /\ LET cls == locator_class
           version == version_of(cls, version_arg)
           cache_path == get_cache_path(cls, XDG_CACHE_HOME, version)
           early == early_tiers(cls, fs, user_path, cache_path)
           made == mkdir_parents(fs, Parent(cache_path))
           rest == later_tiers(cls, made)
           tried == early.consulted \o <<"fetch">>
       IN IF early.decided
          THEN /\ call' = [call EXCEPT ![c] =
                     Outcome("done", version, early.result, early.consulted, early.seen)]
               /\ fs' = fs
          ELSE /\ fs' = made
               /\ call' = [call EXCEPT ![c] =
                     CASE download_kind(cls) = "not_implemented" ->
                            Outcome("done", version, RaisesOut("NotImplementedError"),
                                    tried, early.seen)
                       [] download_kind(cls) = "returns_false" ->
                            Outcome("done", version, rest.result,
                                    tried \o rest.consulted, early.seen)
                       [] OTHER ->
                            Outcome("fetch", version, Pending, tried, early.seen)]
    /\ UNCHANGED <<locator_class, XDG_CACHE_HOME, user_path, remote, interface, ga, conv>>

\* CMIP6MetadataLocator.locate
cmip6_metadata_locate(c, version_arg) ==
    /\ call[c].pc = "idle"
    /\ locator_class = "CMIP6MetadataLocator"
    /\ call' = [call EXCEPT ![c] =
          Outcome("done", version_of(locator_class, version_arg), ReturnsNone,
                  <<>>, Unchecked)]
    /\ UNCHANGED <<locator_class, XDG_CACHE_HOME, user_path, remote, fs, interface, ga, conv>>

\* After _download_from_git returned False: priorities 4 and 5.
FetchFailed(c, f) ==
    LET rest == later_tiers(locator_class, f) IN
    [call EXCEPT ![c] =
        Outcome("done", call[c].version, rest.result,
                call[c].consulted \o rest.consulted, call[c].seen)]

\* After _download_from_git returned True.
FetchSucceeded(c, cache_path) ==
    [call EXCEPT ![c] =
        Outcome("done", call[c].version,
                ReturnsPath("fetch", with_repo_subdir(locator_class, cache_path)),
                call[c].consulted, call[c].seen)]

\* An exception inside _download_from_git's try block.
FetchRaised(c, f, exc) ==
    IF Caught(locator_class, exc)
    THEN FetchFailed(c, f)
    ELSE [call EXCEPT ![c] =
            Outcome("done", call[c].version, RaisesOut(exc),
                    call[c].consulted, call[c].seen)]

\* os.makedirs(dst) at the start of shutil.copytree(src, dst)
makedirs(f, dst) == [f EXCEPT ![dst] = Dir(0)]

\* CVLocator / TableLocator._download_from_git: git clone into a temporary
\* directory, then the start of copytree into the cache path.
git_clone(c) ==
    /\ call[c].pc = "fetch"
    /\ download_kind(locator_class) = "git"
    /\ LET cache_path == get_cache_path(locator_class, XDG_CACHE_HOME, call[c].version)
           exc == subprocess_run(remote)
       IN IF exc # None
          THEN /\ call' = FetchRaised(c, fs, exc)
               /\ fs' = fs
          ELSE IF exists(fs, cache_path)
          THEN /\ call' = FetchRaised(c, fs, "FileExistsError")
               /\ fs' = fs
          ELSE /\ fs' = makedirs(fs, cache_path)
               /\ call' = [call EXCEPT ![c].pc = "copy"]
    /\ UNCHANGED <<locator_class, XDG_CACHE_HOME, user_path, remote, interface, ga, conv>>

\* copytree copies the next file; after the last one _download_from_git
\* returns True and locate returns the cache path.
copy_file(c) ==
    /\ call[c].pc = "copy"
    /\ LET cache_path == get_cache_path(locator_class, XDG_CACHE_HOME, call[c].version)
       IN /\ fs' = [fs EXCEPT ![cache_path].n = @ + 1]
          /\ call' = IF fs[cache_path].n + 1 >= NumFiles
                     THEN FetchSucceeded(c, cache_path)
                     ELSE call
    /\ UNCHANGED <<locator_class, XDG_CACHE_HOME, user_path, remote, interface, ga, conv>>

\* CMIP7MetadataLocator._download_from_git: export_dreq_lists_json is run
\* and starts to write its two output files.
run_export(c) ==
    /\ call[c].pc = "fetch"
    /\ download_kind(locator_class) = "export"
    /\ LET version == call[c].version
           cache_path == get_cache_path(locator_class, XDG_CACHE_HOME, version)
           made == mkdir_parents(fs, Parent(cache_path))
           exc == IF subprocess_run(remote) # None THEN subprocess_run(remote)
                  ELSE IF is_dir(made, cache_path) THEN "CalledProcessError"
                  ELSE None
       IN IF exc # None
          THEN /\ call' = FetchRaised(c, made, exc)
               /\ fs' = made
          ELSE /\ fs' = [made EXCEPT ![experiments_file(cache_path, version)] = File("{}"),
                                     ![cache_path] = File(TruncatedMetadataText)]
               /\ call' = [call EXCEPT ![c].pc = "generate"]
    /\ UNCHANGED <<locator_class, XDG_CACHE_HOME, user_path, remote, interface, ga, conv>>

\* The command completes the metadata file; the experiments file is
\* unlinked and _download_from_git returns metadata_file.exists().
finish_export(c) ==
    /\ call[c].pc = "generate"
    /\ LET version == call[c].version
           cache_path == get_cache_path(locator_class, XDG_CACHE_HOME, version)
           written == [fs EXCEPT ![cache_path] = File(ValidMetadataText)]
           cleaned == [written EXCEPT ![experiments_file(cache_path, version)] = Absent]
       IN /\ fs' = cleaned
          /\ call' = IF exists(cleaned, cache_path)
                     THEN FetchSucceeded(c, cache_path)
                     ELSE FetchFailed(c, cleaned)
    /\ UNCHANGED <<locator_class, XDG_CACHE_HOME, user_path, remote, interface, ga, conv>>

\* The caller takes the result; it may call locate again.
caller_returns(c) ==
    /\ call[c].pc = "done"
    /\ call' = [call EXCEPT ![c] = IdleCall]
    /\ UNCHANGED <<locator_class, XDG_CACHE_HOME, user_path, remote, fs, interface, ga, conv>>

OthersIdle(c) == \A d \in Callers \ {c} : call[d].pc = "idle"

\* The core is synchronous: one locate() at a time.
Next ==
    \E c \in Callers :
        \/ \E a \in VersionArgs : OthersIdle(c) /\ locate(c, a)
        \/ \E a \in VersionArgs : OthersIdle(c) /\ cmip6_metadata_locate(c, a)
        \/ git_clone(c)
        \/ copy_file(c)
        \/ run_export(c)
        \/ finish_export(c)
        \/ caller_returns(c)

Spec == Init /\ [][Next]_vars

\* Callers on several threads or processes: locate() calls interleave at
\* the filesystem operations.
NextConcurrent ==
    \E c \in Callers :
        \/ \E a \in VersionArgs : locate(c, a)
        \/ \E a \in VersionArgs : cmip6_metadata_locate(c, a)
        \/ git_clone(c)
        \/ copy_file(c)
        \/ run_export(c)
        \/ finish_export(c)
        \/ caller_returns(c)

SpecConcurrent == Init /\ [][NextConcurrent]_vars

(***************************************************************************)
(* Properties.                                                             *)
(***************************************************************************)
Rank(tier) == CHOOSE i \in 1..Len(Tiers) : Tiers[i] = tier

\* Calls that run ResourceLocator.locate (CMIP6MetadataLocator overrides it).
RunsLocate == locator_class # "CMIP6MetadataLocator"

CachePathOf(c) == get_cache_path(locator_class, XDG_CACHE_HOME, call[c].version)

UserPathExists == user_path # NoPath /\ exists(fs, user_path)
PackagedExists ==
    get_packaged_path(locator_class) # NoPath /\ exists(fs, get_packaged_path(locator_class))
VendoredExists ==
    vendored_location(locator_class) # NoPath /\ exists(fs, vendored_location(locator_class))

\* The location a tier hands out.
TierLocation(c, tier) ==
    CASE tier = "user" -> user_path
      [] tier \in {"cache", "fetch"} ->
            IF locator_class = "CMIP6TableLocator"
            THEN CachePathOf(c) \o <<"Tables">>
            ELSE CachePathOf(c)
      [] tier = "packaged" -> PackagedCmip7
      [] OTHER -> RepoRoot \o VENDORED_SUBDIR(locator_class)

\* Whether a consulted tier is known to have had the resource.
TierHadResource(c, tier) ==
    CASE tier = "user" -> UserPathExists
      [] tier = "cache" -> call[c].seen.verdict = "True"
      [] tier = "packaged" -> PackagedExists
      [] OTHER -> FALSE

\* C1: locate consults the tiers in the order user path, cache, remote fetch,
\* packaged, vendored, without skipping one (the user tier only when a
\* user_path is given); a returned path is the location of the last tier
\* consulted, every tier consulted before it had failed, and with an
\* existing user_path the result is exactly user_path with no other tier
\* consulted.
C1_PriorityOrder ==
    RunsLocate =>
        \A c \in Callers :
            LET q == call[c].consulted
                r == call[c].result
            IN /\ \A i \in 1..(Len(q) - 1) : Rank(q[i + 1]) = Rank(q[i]) + 1
               /\ q # <<>> => q[1] = IF user_path # NoPath THEN "user" ELSE "cache"
               /\ r.kind = "path" =>
                     /\ q # <<>>
                     /\ r.tier = q[Len(q)]
                     /\ r.path = TierLocation(c, r.tier)
               /\ \A i \in 1..(Len(q) - 1) : ~TierHadResource(c, q[i])
               /\ (call[c].pc = "done" /\ UserPathExists) =>
                     /\ r = ReturnsPath("user", user_path)
                     /\ q = <<"user">>

\* A call returned the existing user path although the cache held a valid
\* entry, the remote was reachable and a vendored copy existed.
C1_Witness ==
    \E c \in Callers :
        /\ call[c].pc = "done"
        /\ call[c].result.tier = "user"
        /\ EntryState(fs, CachePathOf(c)) = "nonempty_dir"
        /\ remote = "ok"
        /\ VendoredExists

Consulted(c, tier) == \E i \in 1..Len(call[c].consulted) : call[c].consulted[i] = tier

\* tier `next` was consulted right after tier `tier`
ConsultedNext(c, tier, next) ==
    \E i \in 1..(Len(call[c].consulted) - 1) :
        call[c].consulted[i] = tier /\ call[c].consulted[i + 1] = next

\* C2: when the cache path exists and passes validation and no existing
\* user_path takes precedence, locate returns the cache path (with "Tables"
\* appended by the CMIP6 table locator) and does not invoke the remote fetch.
C2_ValidCacheIsReturned ==
    RunsLocate =>
        \A c \in Callers :
            (~UserPathExists /\ call[c].seen.verdict = "True") =>
                /\ call[c].pc = "done"
                /\ call[c].result = ReturnsPath("cache", TierLocation(c, "cache"))
                /\ ~Consulted(c, "fetch")

\* The CMIP6 table locator, given a user_path that does not exist, returned
\* its valid cache entry although the remote was reachable.
C2_Witness ==
    \E c \in Callers :
        /\ locator_class = "CMIP6TableLocator"
        /\ call[c].pc = "done"
        /\ call[c].result.tier = "cache"
        /\ user_path # NoPath
        /\ remote = "ok"

\* C3: an existing but empty directory at the cache path fails validation, is
\* not returned as a cache hit, and the remote fetch is the next tier tried.
C3_EmptyCacheDirIsInvalid ==
    RunsLocate =>
        \A c \in Callers :
            call[c].seen.state = "empty_dir" =>
                /\ call[c].seen.verdict = "False"
                /\ call[c].result.tier # "cache"
                /\ ConsultedNext(c, "cache", "fetch")

\* A CV locator found an empty directory at its cache path and finished.
C3_Witness ==
    \E c \in Callers :
        /\ locator_class \in CVLocators
        /\ call[c].pc = "done"
        /\ call[c].seen.state = "empty_dir"
        /\ remote = "ok"

\* C4: with no existing user path, no valid cache entry, a failing remote
\* fetch and no packaged copy, locate returns the vendored path (and so does
\* not raise) whenever the vendored copy exists.
C4_VendoredFallback ==
    RunsLocate =>
        \A c \in Callers :
            (/\ call[c].pc = "done"
             /\ ~UserPathExists
             /\ call[c].seen.verdict = "False"
             /\ remote # "ok"
             /\ ~PackagedExists
             /\ VendoredExists) =>
                call[c].result =
                    ReturnsPath("vendored", RepoRoot \o VENDORED_SUBDIR(locator_class))

\* A call with a missing user path, an empty cache and git not installed
\* ended at the vendored submodule.
C4_Witness ==
    \E c \in Callers :
        /\ call[c].pc = "done"
        /\ call[c].result.tier = "vendored"
        /\ user_path # NoPath
        /\ call[c].seen.state = "absent"
        /\ remote = "tool_missing"

\* C6: in every locator class that runs a command to fetch, a command that
\* exits non-zero, is missing or fails with an OS error makes the fetch tier
\* fail: locate does not raise, does not return the fetched path, and
\* consults the packaged tier next.
C6_FetchFailureIsATierFailure ==
    \A c \in Callers :
        (/\ call[c].pc = "done"
         /\ download_kind(locator_class) \in {"git", "export"}
         /\ Consulted(c, "fetch")
         /\ remote # "ok") =>
            /\ call[c].result.kind # "raise"
            /\ call[c].result.tier # "fetch"
            /\ ConsultedNext(c, "fetch", "packaged")

\* git is not installed, and a CV locator went on to its vendored copy.
C6_Witness ==
    \E c \in Callers :
        /\ locator_class \in CVLocators
        /\ call[c].pc = "done"
        /\ remote = "tool_missing"
        /\ Consulted(c, "fetch")
        /\ call[c].result.tier = "vendored"

C5_ExhaustionReturnsNone ==
    \A c \in Callers :
        (/\ call[c].pc = "done"
         /\ RunsLocate
         /\ locator_class # "ResourceLocator"
         /\ ~UserPathExists
         /\ call[c].seen.verdict \in {"False", "raise"}
         /\ (download_kind(locator_class) = "returns_false" \/ remote # "ok")
         /\ ~PackagedExists
         /\ ~VendoredExists) =>
            call[c].result = ReturnsNone

\* C7: a lookup that finds an existing cache entry failing validation has it
\* replaced: with a working remote the call returns the freshly fetched
\* cache path and the entry at that path is valid afterwards.
C7_InvalidEntryIsRegenerated ==
    \A c \in Callers :
        (/\ call[c].pc = "done"
         /\ download_kind(locator_class) \in {"git", "export"}
         /\ ~UserPathExists
         /\ call[c].seen.state \in {"empty_dir", "empty_file", "file", "nonempty_dir"}
         /\ call[c].seen.verdict = "False"
         /\ remote = "ok") =>
            /\ call[c].result = ReturnsPath("fetch", TierLocation(c, "fetch"))
            /\ validate_cache(locator_class, fs, CachePathOf(c)) = Returns(TRUE)

\* A caller is writing the cache entry of its (resource, version), which it
\* found absent.
Populating(d) ==
    /\ call[d].pc \in {"copy", "generate"}
    /\ call[d].seen.state = "absent"

\* C9: with concurrent callers, at the moment locate returns a cache path to
\* one caller no other caller is still populating that cache slot for the
\* first time (the content returned is never partially written).
C9_NoPartialContentReturned ==
    [][\A c \in Callers :
          (/\ call[c].pc # "done"
           /\ call'[c].pc = "done"
           /\ call'[c].result.tier \in {"cache", "fetch"}) =>
              ~\E d \in Callers \ {c} :
                  /\ call[d].version = call'[c].version
                  /\ Populating(d)
                  /\ call'[d] = call[d]]_vars

\* A text is a non-empty file holding a JSON object with one of the
\* expected top-level keys.
HasExpectedKeys(t) ==
    /\ t # ""
    /\ json_load(t).exc = None
    /\ json_load(t).jtype = "object"
    /\ json_load(t).members \cap {"Compound Name", "Header"} # {}

\* C10: for the CMIP7 metadata locator a cached file passes validation
\* exactly when it is non-empty and holds a JSON object with the key
\* "Compound Name" or "Header"; for every other file validation returns
\* False without raising and locate goes on to the fetch tier.
C10_MetadataValidation ==
    \A c \in Callers :
        (/\ locator_class = "CMIP7MetadataLocator"
         /\ call[c].seen.state \in {"file", "empty_file"}) =>
            /\ call[c].seen.verdict # "raise"
            /\ call[c].seen.verdict = "True" <=> HasExpectedKeys(call[c].seen.text)
            /\ call[c].seen.verdict = "False" => ConsultedNext(c, "cache", "fetch")

(***************************************************************************)
(* CMIP7Interface.load_metadata (src/pycmor/data_request/cmip7_interface.py).*)
(***************************************************************************)
\* os.getenv("PYCMOR_CMIP7_METADATA_DIR"): unset, or a directory.
MetadataDirValues == {None, "/meta"}

\* A metadata_file argument of load_metadata.
MetadataFile == <<"user", "metadata.json">>

\* Path(env_metadata_dir) / f"{version}.json"
env_cache_path(env_metadata_dir, version) == <<env_metadata_dir, version \o ".json">>

\* cache_locations of load_metadata, in the order they are tried.
cache_locations(version) ==
    << <<"~", ".cache", "pycmor", "cmip7_metadata", version \o ".json">>,
       <<"/home/mambauser", ".cache", "pycmor", "cmip7_metadata", version \o ".json">> >>

\* The versions load_metadata is called with (default "v1.2.2.2").
InterfaceVersions == {version_of("CMIP7MetadataLocator", a) : a \in VersionArgs}

\* A fresh CMIP7Interface: _metadata and _version are None.  `source`,
\* `version`, `consulted` (the cache locations tested with exists()) and
\* `exc` describe the last load_metadata call.
\* `metadata_file` and `force_reload` are the other arguments of that call,
\* and `object` numbers the objects json.load has bound to _metadata, so
\* that two states hold the very same object exactly when the number is
\* the same.
FreshInterface ==
    [pc |-> "ready", _metadata |-> None, _version |-> None, version |-> None,
     source |-> "none", consulted |-> {}, cached_file |-> NoPath, exc |-> None,
     metadata_file |-> NoPath, force_reload |-> FALSE, object |-> 0]

\* json.load calls an interface makes at most.
MaxLoads == 2

\* self._metadata.get("Header", {}).get("dreq content version", version)
dreq_content_version(text, version) ==
    IF text = VersionedMetadataText THEN "v1.2.2.2" ELSE version

\* open(path) followed by json.load(f), then the closing logger line
\* `self._metadata.get('Compound Name', {})`.
open_and_load(f, path) ==
    IF ~exists(f, path) THEN "FileNotFoundError"
    ELSE IF is_dir(f, path) THEN "IsADirectoryError"
    ELSE LET data == json_load(f[path].text) IN
         IF data.exc # None THEN data.exc
         ELSE IF data.jtype # "object" THEN "AttributeError"
         ELSE None

\* The first existing path of a sequence of paths, NoPath when none exists.
RECURSIVE first_existing(_, _)
first_existing(f, paths) ==
    IF paths = <<>> THEN NoPath
    ELSE IF exists(f, Head(paths)) THEN Head(paths)
    ELSE first_existing(f, Tail(paths))

\* The paths of a sequence that are tested up to the first existing one.
RECURSIVE tested(_, _)
tested(f, paths) ==
    IF paths = <<>> THEN {}
    ELSE IF exists(f, Head(paths)) THEN {Head(paths)}
    ELSE {Head(paths)} \cup tested(f, Tail(paths))

\* subprocess.run(["export_dreq_lists_json", ...]) without check=True in a
\* temporary directory: the exception load_metadata ends with.
api_export(mode) ==
    CASE mode = "ok" -> None
      [] mode = "nonzero_exit" -> "RuntimeError"
      [] mode = "tool_missing" -> "FileNotFoundError"
      [] OTHER -> "OSError"

load_metadata(version, metadata_file, force_reload, env_metadata_dir) ==
    /\ interface.pc # "absent"
    /\ interface.object < MaxLoads
    /\ \A c \in Callers : call[c].pc = "idle"
    /\ LET this == [interface EXCEPT !.pc = "loaded", !.version = version,
                                     !.consulted = {}, !.cached_file = NoPath,
                                     !.exc = None, !.metadata_file = metadata_file,
                                     !.force_reload = force_reload]
           \* `self._metadata = json.load(f)`, then the assignment of
           \* _version: from the header for a metadata_file (where a
           \* document that is not an object raises before _version is
           \* assigned), the argument otherwise.
           loaded(src, path, text) ==
               LET exc == open_and_load(fs, path) IN
               IF exc \in {None, "AttributeError"}
               THEN [this EXCEPT !._metadata = text,
                                 !._version = IF src # "file" THEN version
                                              ELSE IF exc = None
                                              THEN dreq_content_version(text, version)
                                              ELSE interface._version,
                                 !.source = src, !.exc = exc, !.object = @ + 1]
               ELSE [this EXCEPT !.source = src, !.exc = exc]
           env_file == IF env_metadata_dir # None /\
                          exists(fs, env_cache_path(env_metadata_dir, version))
                       THEN env_cache_path(env_metadata_dir, version)
                       ELSE NoPath
           cached_file == IF env_file # NoPath THEN env_file
                          ELSE first_existing(fs, cache_locations(version))
           looked == IF env_file # NoPath THEN {}
                     ELSE tested(fs, cache_locations(version))
       IN interface' =
            IF ~force_reload /\ interface._metadata # None /\ interface._version = version
            THEN [this EXCEPT !.source = "already_loaded"]
            ELSE IF metadata_file # NoPath
            THEN loaded("file", metadata_file,
                        IF metadata_file \in DOMAIN fs THEN fs[metadata_file].text ELSE "")
            ELSE IF cached_file # NoPath
            THEN [loaded("cache", cached_file, fs[cached_file].text)
                     EXCEPT !.consulted = looked, !.cached_file = cached_file]
            ELSE IF api_export(remote) # None
            THEN [this EXCEPT !.source = "api", !.consulted = looked,
                              !.exc = api_export(remote)]
            ELSE [this EXCEPT !._metadata = ValidMetadataText, !._version = version,
                              !.source = "api", !.consulted = looked, !.object = @ + 1]
    /\ UNCHANGED <<locator_class, XDG_CACHE_HOME, user_path, remote, fs, call, ga, conv>>

\* A process that resolves CMIP7 metadata with CMIP7MetadataLocator and
\* loads it with CMIP7Interface: the files load_metadata looks for may or
\* may not exist beforehand.
InterfaceFiles ==
    {MetadataFile} \cup
    {env_cache_path(d, v) : d \in MetadataDirValues \ {None}, v \in InterfaceVersions} \cup
    {cache_locations(v)[i] : v \in InterfaceVersions, i \in 1..2}

InitInterface ==
    /\ locator_class = "CMIP7MetadataLocator"
    /\ XDG_CACHE_HOME \in XdgValues
    /\ user_path = NoPath
    /\ remote \in RemoteModes
    /\ \E base \in {MakeFs(locator_class, XDG_CACHE_HOME, slots, FALSE, FALSE, FALSE) :
                       slots \in [CachePaths(locator_class, XDG_CACHE_HOME) ->
                                     {Absent, File(""), File(ValidMetadataText)}]} :
       \E extra \in [InterfaceFiles \ DOMAIN base -> {Absent, File(ValidMetadataText)}] :
          fs = [p \in DOMAIN base \cup DOMAIN extra |->
                   IF p \notin DOMAIN base THEN extra[p]
                   ELSE IF base[p].type = "absent" /\
                           \E q \in DOMAIN extra : IsPrefix(p, q) /\ extra[q].type # "absent"
                   THEN Dir(0)
                   ELSE base[p]]
    /\ call = [c \in Callers |-> IdleCall]
    /\ interface = FreshInterface
    /\ ga = NoAttributes
    /\ conv = NoConversion

NextInterface ==
    \/ \E c \in Callers :
          \/ \E a \in VersionArgs : OthersIdle(c) /\ locate(c, a)
          \/ run_export(c)
          \/ finish_export(c)
          \/ caller_returns(c)
    \/ \E version \in InterfaceVersions, metadata_file \in {NoPath, MetadataFile},
          force_reload \in BOOLEAN, env_metadata_dir \in MetadataDirValues :
          load_metadata(version, metadata_file, force_reload, env_metadata_dir)

SpecInterface == InitInterface /\ [][NextInterface]_vars

\* The cache root: $XDG_CACHE_HOME when set, ~/.cache otherwise.
CacheRoot(xdg) == IF xdg # None THEN <<xdg>> ELSE <<"~", ".cache">>

\* p is <root>/pycmor/<resource_name>/<version> or a file directly below it.
HasCacheLayout(p, xdg, resource_name, version) ==
    LET entry == CacheRoot(xdg) \o <<"pycmor", resource_name, version>>
    IN p = entry \/ (Len(p) = Len(entry) + 1 /\ IsPrefix(entry, p))

\* C11: every cache location read or written for a resource, by a locator
\* and by CMIP7Interface.load_metadata, is
\* <root>/pycmor/<resource_name>/<version>[/<filename>] with <root> the value
\* of XDG_CACHE_HOME when set and ~/.cache otherwise; so metadata that the
\* locator has cached is what load_metadata finds and loads from the cache.
C11_CacheLayout ==
    /\ \A c \in Callers :
          (call[c].pc # "idle" /\ RunsLocate /\ call[c].version # None) =>
              HasCacheLayout(CachePathOf(c), XDG_CACHE_HOME,
                             RESOURCE_NAME(locator_class), call[c].version)
    /\ interface.pc = "loaded" =>
          /\ \A p \in interface.consulted :
                HasCacheLayout(p, XDG_CACHE_HOME, "cmip7_metadata", interface.version)
          /\ (/\ interface.source \in {"cache", "api"}
              /\ interface.cached_file \notin
                    {env_cache_path(d, interface.version) : d \in MetadataDirValues \ {None}}
              /\ exists(fs, get_cache_path("CMIP7MetadataLocator", XDG_CACHE_HOME,
                                           interface.version))) =>
                 interface.cached_file =
                     get_cache_path("CMIP7MetadataLocator", XDG_CACHE_HOME, interface.version)

(***************************************************************************)
(* Global attributes (src/pycmor/std_lib/global_attributes.py).            *)
(* Python values carry their type: t is the type, s the text of a str (or  *)
(* the digits of an int), items the members of a list, and for a dict the  *)
(* value of its "id" key is kept in s.                                     *)
(***************************************************************************)
Str(x) == [t |-> "str", s |-> x, items |-> <<>>]
PyInt(digits) == [t |-> "int", s |-> digits, items |-> <<>>]
PyList(xs) == [t |-> "list", s |-> "", items |-> xs]
PyDict(id) == [t |-> "dict", s |-> id, items |-> <<>>]
PyNone == [t |-> "NoneType", s |-> "None", items |-> <<>>]
\* A key that the mapping does not hold.
Missing == [t |-> "missing", s |-> "", items |-> <<>>]

\* bool(v)
Truthy(v) ==
    CASE v.t \in {"NoneType", "missing"} -> FALSE
      [] v.t = "str" -> v.s # ""
      [] v.t = "int" -> v.s # "0"
      [] v.t = "list" -> v.items # <<>>
      [] OTHER -> TRUE

\* What an accessor does: the value it returns, or the exception it raises.
Ok(v) == [exc |-> None, val |-> v]
Err(e) == [exc |-> e, val |-> PyNone]

\* mapping.get(key, default) and mapping[key] on the rule's parameter dict.
rule_get(g, key, default) ==
    IF g.rule_dict[key] = Missing THEN default ELSE g.rule_dict[key]

rule_item(g, key) ==
    IF g.rule_dict[key] = Missing THEN Err("KeyError") ELSE Ok(g.rule_dict[key])

\* " ".join(xs) for a list of str
RECURSIVE join(_, _)
join(sep, xs) ==
    IF xs = <<>> THEN ""
    ELSE IF Len(xs) = 1 THEN Head(xs).s
    ELSE Head(xs).s \o sep \o join(sep, Tail(xs))

\* s.split(sep) for a one-character separator: the sequence of the pieces.
RECURSIVE split(_, _)
split(s, sep) ==
    IF \A k \in 1..Len(s) : SubSeq(s, k, k) # sep THEN <<s>>
    ELSE LET k == CHOOSE j \in 1..Len(s) :
                      SubSeq(s, j, j) = sep /\ \A i \in 1..(j - 1) : SubSeq(s, i, i) # sep
         IN <<SubSeq(s, 1, k - 1)>> \o split(SubSeq(s, k + 1, Len(s)), sep)

\* s.split(): the pieces between runs of blanks.
split_whitespace(s) == SelectSeq(split(s, " "), LAMBDA piece : piece # "")

(***************************************************************************)
(* _variant_label_components: the pattern                                  *)
(* r(\d+)i(\d+)p(\d+)f(\d+)$ applied with pattern.match(label).            *)
(***************************************************************************)
Digits == <<"0", "1", "2", "3", "4", "5", "6", "7", "8", "9">>
IsDigit(ch) == \E d \in 1..10 : Digits[d] = ch
DigitValue(ch) == (CHOOSE d \in 1..10 : Digits[d] = ch) - 1

\* int(val) for a string of digits
RECURSIVE int(_)
int(digits) ==
    IF digits = "" THEN 0
    ELSE 10 * int(SubSeq(digits, 1, Len(digits) - 1))
         + DigitValue(SubSeq(digits, Len(digits), Len(digits)))

\* The length of the longest run of digits that starts at position k.
RECURSIVE digit_run(_, _)
digit_run(s, k) ==
    IF k <= Len(s) /\ IsDigit(SubSeq(s, k, k)) THEN 1 + digit_run(s, k + 1) ELSE 0

\* One group `<letter>(\d+)` at position k: the position after it, 0 when
\* the group does not match there.  (\d+ is followed by a non-digit, so the
\* greedy run is the only way to match.)
group_end(s, k, letter) ==
    IF k <= Len(s) /\ SubSeq(s, k, k) = letter /\ digit_run(s, k + 1) > 0
    THEN k + 1 + digit_run(s, k + 1)
    ELSE 0

\* `$` without re.MULTILINE: at the end of the string, or just before a
\* newline that is the last character.
dollar(s, k) == k = Len(s) + 1 \/ (k = Len(s) /\ SubSeq(s, k, k) = "\n")

_variant_label_components(label) ==
    LET r == group_end(label, 1, "r")
        i == IF r = 0 THEN 0 ELSE group_end(label, r, "i")
        p == IF i = 0 THEN 0 ELSE group_end(label, i, "p")
        f == IF p = 0 THEN 0 ELSE group_end(label, p, "f")
    IN IF f = 0 \/ ~dollar(label, f)
       THEN [exc |-> "ValueError",
             message |-> "`label` must be of the form 'r<int>i<int>p<int>f<int>', Got: " \o label,
             val |-> <<>>]
       ELSE [exc |-> None, message |-> "",
             val |-> [realization_index |-> int(SubSeq(label, 2, r - 1)),
                      initialization_index |-> int(SubSeq(label, r + 1, i - 1)),
                      physics_index |-> int(SubSeq(label, i + 1, p - 1)),
                      forcing_index |-> int(SubSeq(label, p + 1, f - 1))]]

(***************************************************************************)
(* CMIP7GlobalAttributes.  g is the object: g.drv, g.cv, g.rule_dict.      *)
(* g.cv.experiment is cv["experiment"][experiment_id] (NoEntry when the    *)
(* CV has no such entry); a field that is Missing is a key that is absent. *)
(***************************************************************************)
NoEntry == [present |-> FALSE]

\* str(v), and v inside an f-string
str(v) == Str(v.s)

\* "experiment" in self.cv and experiment_id in self.cv["experiment"]
has_experiment(g) == g.cv.experiment # NoEntry

\* dict.get(key, default) on the CV's experiment entry
exp_get(g, key, default) ==
    IF g.cv.experiment[key] = Missing THEN default ELSE g.cv.experiment[key]

\* self.drv.get(name, None) / getattr(self.drv, name, None)
drv_get(g, name) == IF g.drv[name] = Missing THEN PyNone ELSE g.drv[name]

\* x in xs, for a list xs
InList(x, xs) == \E k \in 1..Len(xs.items) : xs.items[k] = x

cmip7_get_variant_label(g) == rule_item(g, "variant_label")

\* get_physics_index, get_forcing_index, get_initialization_index,
\* get_realization_index
cmip7_get_index(g, name) ==
    LET variant_label == cmip7_get_variant_label(g) IN
    IF variant_label.exc # None THEN variant_label
    ELSE IF variant_label.val.t # "str" THEN Err("TypeError")
    ELSE LET components == _variant_label_components(variant_label.val.s) IN
         IF components.exc # None THEN Err(components.exc)
         ELSE Ok(Str(ToString(components.val[name])))

cmip7_get_source_id(g) == rule_item(g, "source_id")
cmip7_get_institution_id(g) == rule_item(g, "institution_id")
cmip7_get_experiment_id(g) == rule_item(g, "experiment_id")
cmip7_get_grid_label(g) == rule_item(g, "grid_label")
cmip7_get_creation_date(g) == rule_item(g, "creation_date")
cmip7_get_variable_id(g) == rule_item(g, "cmor_variable")

cmip7_get_realm(g) ==
    LET realm == drv_get(g, "modeling_realm")
        fallback == rule_get(g, "realm", rule_get(g, "model_component", PyNone))
        found == IF realm = PyNone THEN fallback ELSE realm
    IN IF found = PyNone THEN Err("ValueError") ELSE Ok(found)

cmip7_get_source(g) ==
    LET user_source == rule_get(g, "source", PyNone)
        source_id == cmip7_get_source_id(g)
        realm == cmip7_get_realm(g)
        release_year == rule_get(g, "release_year", PyNone)
    IN IF Truthy(user_source) THEN Ok(user_source)
       ELSE IF source_id.exc # None THEN source_id
       ELSE IF realm.exc # None THEN realm
       ELSE IF Truthy(release_year)
       THEN Ok(Str(realm.val.s \o " (" \o release_year.s \o ")"))
       ELSE Ok(Str(source_id.val.s \o " " \o realm.val.s))

cmip7_get_institution(g) ==
    LET user_institution == rule_get(g, "institution", PyNone) IN
    IF Truthy(user_institution) THEN Ok(user_institution)
    ELSE cmip7_get_institution_id(g)

cmip7_get_grid(g) ==
    LET user_grid == rule_get(g, "grid", rule_get(g, "description", PyNone)) IN
    IF Truthy(user_grid) THEN Ok(user_grid) ELSE Ok(Str("none"))

cmip7_get_nominal_resolution(g) ==
    LET user_resolution ==
            rule_get(g, "nominal_resolution", rule_get(g, "resolution", PyNone)) IN
    IF Truthy(user_resolution) THEN Ok(user_resolution) ELSE Ok(Str("none"))

\* The two hand-written license texts, with institution_id filled in.
cmip7_license_text(institution_id, long) ==
    Str("CMIP7 model data produced by " \o institution_id.s \o
        " is licensed under a Creative Commons Attribution 4.0 International License" \o
        " (https://creativecommons.org/licenses/by/4.0/)." \o
        (IF long THEN " Consult https://pcmdi.llnl.gov/CMIP7/TermsOfUse for terms of use ..."
         ELSE ""))

cmip7_get_license(g) ==
    LET user_license == rule_get(g, "license", PyNone)
        institution_id == cmip7_get_institution_id(g)
        from_cv == /\ g.cv.license # Missing
                   /\ Truthy(g.cv.license)
                   /\ g.cv.license.t = "list"
    IN IF Truthy(user_license) THEN Ok(user_license)
       ELSE IF institution_id.exc # None THEN institution_id
       ELSE Ok(cmip7_license_text(institution_id.val, from_cv))

cmip7_get_experiment(g) ==
    LET experiment_id == cmip7_get_experiment_id(g) IN
    IF experiment_id.exc # None THEN experiment_id
    ELSE IF has_experiment(g) THEN Ok(exp_get(g, "description", experiment_id.val))
    ELSE Ok(rule_get(g, "experiment", experiment_id.val))

cmip7_get_activity_id(g) ==
    LET experiment_id == cmip7_get_experiment_id(g)
        activities == exp_get(g, "activity", PyList(<<>>))
        user_activity_id == rule_get(g, "activity_id", PyNone)
    IN IF experiment_id.exc # None THEN experiment_id
       ELSE IF has_experiment(g) /\ Len(activities.items) > 1
       THEN (IF Truthy(user_activity_id)
             THEN (IF ~InList(user_activity_id, activities)
                   THEN Err("ValueError")
                   ELSE Ok(user_activity_id))
             ELSE Err("ValueError"))
       ELSE IF has_experiment(g) /\ Len(activities.items) = 1
       THEN Ok(activities.items[1])
       ELSE IF Truthy(user_activity_id) THEN Ok(user_activity_id)
       ELSE Err("ValueError")

cmip7_get_sub_experiment_id(g) ==
    LET experiment_id == cmip7_get_experiment_id(g)
        sub_exp == exp_get(g, "sub-experiment",
                           exp_get(g, "sub_experiment_id", PyList(<<Str("none")>>)))
    IN IF experiment_id.exc # None THEN experiment_id
       ELSE IF has_experiment(g)
       THEN (IF sub_exp.t = "list" THEN Ok(Str(join(" ", sub_exp.items)))
             ELSE Ok(str(sub_exp)))
       ELSE Ok(rule_get(g, "sub_experiment_id", Str("none")))

\* get_sub_experiment of both classes, given the sub_experiment_id.
sub_experiment_of(sub_experiment_id) ==
    IF sub_experiment_id.exc # None THEN sub_experiment_id
    ELSE IF sub_experiment_id.val = Str("none") THEN Ok(Str("none"))
    ELSE IF sub_experiment_id.val.t # "str" THEN Err("AttributeError")
    ELSE IF split_whitespace(sub_experiment_id.val.s) = <<>> THEN Err("IndexError")
    ELSE Ok(Str(split_whitespace(sub_experiment_id.val.s)[1]))

cmip7_get_sub_experiment(g) == sub_experiment_of(cmip7_get_sub_experiment_id(g))

\* realm_ids of get_source_type: the "id" of a dict when it is non-empty,
\* str(realm) of anything else.
RECURSIVE realm_ids(_)
realm_ids(model_realms) ==
    IF model_realms = <<>> THEN <<>>
    ELSE LET realm == Head(model_realms) IN
         (IF realm.t = "dict"
          THEN (IF realm.s # "" THEN <<Str(realm.s)>> ELSE <<>>)
          ELSE <<str(realm)>>) \o realm_ids(Tail(model_realms))

cmip7_get_source_type(g) ==
    LET experiment_id == cmip7_get_experiment_id(g)
        model_realms == exp_get(g, "model-realms", PyList(<<>>))
        ids == IF has_experiment(g) /\ model_realms.t = "list"
               THEN realm_ids(model_realms.items) ELSE <<>>
        user_source_type == rule_get(g, "source_type", PyNone)
    IN IF experiment_id.exc # None THEN experiment_id
       ELSE IF ids # <<>> THEN Ok(Str(join(" ", ids)))
       ELSE IF Truthy(user_source_type) THEN Ok(user_source_type)
       ELSE Ok(Str("AOGCM"))

\* str.upper() of one character
LowerCase == "abcdefghijklmnopqrstuvwxyz"
UpperCase == "ABCDEFGHIJKLMNOPQRSTUVWXYZ"
upper(ch) ==
    IF \E k \in 1..26 : SubSeq(LowerCase, k, k) = ch
    THEN LET k == CHOOSE j \in 1..26 : SubSeq(LowerCase, j, j) = ch
         IN SubSeq(UpperCase, k, k)
    ELSE ch

\* str.lower() of one character
lower(ch) ==
    IF \E k \in 1..26 : SubSeq(UpperCase, k, k) = ch
    THEN LET k == CHOOSE j \in 1..26 : SubSeq(UpperCase, j, j) = ch
         IN SubSeq(LowerCase, k, k)
    ELSE ch

\* str.capitalize(): the first character upper-cased, the others lower-cased.
RECURSIVE lowered(_)
lowered(s) == IF s = "" THEN "" ELSE lower(SubSeq(s, 1, 1)) \o lowered(SubSeq(s, 2, Len(s)))
capitalized(s) == IF s = "" THEN "" ELSE upper(SubSeq(s, 1, 1)) \o lowered(SubSeq(s, 2, Len(s)))

\* realm_map.get(component, component[0].upper()); "" stands for the
\* IndexError of component[0] on an empty component.
realm_letter(component) ==
    CASE component = "atmos" -> "A"
      [] component \in {"ocean", "ocn", "ocnBgchem"} -> "O"
      [] component = "seaIce" -> "SI"
      [] component = "land" -> "L"
      [] component = "landIce" -> "LI"
      [] component = "" -> ""
      [] OTHER -> upper(SubSeq(component, 1, 1))


\* f"{realm_letter}{frequency}" with component = parts[0], frequency = parts[3]
synthesized_table_id(parts) == realm_letter(parts[1]) \o parts[4]


\* get_table_id that looks at the rule before the variable's cmip6_table.
table_id_sources_rule_first(g) ==
    LET from_rule == rule_get(g, "table_id", PyNone) IN
    IF from_rule = PyNone THEN drv_get(g, "cmip6_table") ELSE from_rule

\* table_id after the first two sources: the variable's cmip6_table, else
\* the rule's table_id (None when neither is there).
table_id_sources(g) ==
    LET table_id == drv_get(g, "cmip6_table") IN
    IF table_id = PyNone THEN rule_get(g, "table_id", PyNone) ELSE table_id

cmip7_get_table_id(g) ==
    LET table_id == table_id_sources(g)
        compound_name == rule_get(g, "compound_name", PyNone)
        parts == split(compound_name.s, ".")
    IN IF table_id # PyNone THEN Ok(table_id)
       ELSE IF ~Truthy(compound_name) THEN Err("ValueError")
       ELSE IF compound_name.t # "str" THEN Err("AttributeError")
       ELSE IF Len(parts) < 5 THEN Err("ValueError")
       ELSE IF parts[1] = "" THEN Err("IndexError")
       ELSE Ok(Str(synthesized_table_id(parts)))

\* The first item of a project-level CV list, when the CV has a non-empty one.
cv_first(g, name) ==
    IF g.cv[name] # Missing /\ g.cv[name].t = "list" /\ Len(g.cv[name].items) > 0
    THEN g.cv[name].items[1]
    ELSE PyNone

cmip7_get_mip_era(g) ==
    IF cv_first(g, "mip-era") # PyNone THEN Ok(cv_first(g, "mip-era"))
    ELSE Ok(rule_get(g, "mip_era", Str("CMIP7")))

cmip7_get_frequency(g) ==
    LET frequency == drv_get(g, "frequency")
        found == IF frequency = PyNone THEN rule_get(g, "frequency", PyNone) ELSE frequency
    IN IF found = PyNone THEN Err("ValueError") ELSE Ok(found)

cmip7_get_Conventions(g) == Ok(rule_get(g, "Conventions", Str("CF-1.10 CMIP-7.0")))

cmip7_get_product(g) ==
    IF cv_first(g, "product") # PyNone THEN Ok(cv_first(g, "product"))
    ELSE Ok(rule_get(g, "product", Str("model-output")))


\* get_data_specs_version that hands the variable's version on as it is.
cmip7_get_data_specs_version_unconverted(g) ==
    LET version == drv_get(g, "version") IN
    IF Truthy(version) THEN Ok(version)
    ELSE Ok(rule_get(g, "data_specs_version", Str("1.0.0")))

cmip7_get_data_specs_version(g) ==
    LET version == drv_get(g, "version") IN
    IF Truthy(version) THEN Ok(str(version))
    ELSE Ok(rule_get(g, "data_specs_version", Str("1.0.0")))

\* "hdl:21.14100/" + str(uuid.uuid4())
get_tracking_id(uuid4) == Ok(Str("hdl:21.14100/" \o uuid4))

\* The further-info URL of both classes, from its six parts.
further_info_url_of(parts) ==
    IF \E k \in 1..6 : parts[k].exc # None
    THEN parts[CHOOSE k \in 1..6 : parts[k].exc # None /\ \A j \in 1..(k - 1) : parts[j].exc = None]
    ELSE Ok(Str("https://furtherinfo.es-doc.org/" \o
                parts[1].val.s \o "." \o parts[2].val.s \o "." \o parts[3].val.s \o "." \o
                parts[4].val.s \o "." \o parts[5].val.s \o "." \o parts[6].val.s))

cmip7_get_further_info_url(g) ==
    further_info_url_of(<<cmip7_get_mip_era(g), cmip7_get_institution_id(g),
                          cmip7_get_source_id(g), cmip7_get_experiment_id(g),
                          cmip7_get_sub_experiment_id(g), cmip7_get_variant_label(g)>>)

\* The fallback list of required_global_attributes.
cmip7_required_global_attributes ==
    <<"Conventions", "activity_id", "creation_date", "data_specs_version", "experiment",
      "experiment_id", "forcing_index", "frequency", "further_info_url", "grid",
      "grid_label", "initialization_index", "institution", "institution_id", "license",
      "mip_era", "nominal_resolution", "physics_index", "product", "realization_index",
      "realm", "source", "source_id", "source_type", "sub_experiment",
      "sub_experiment_id", "table_id", "tracking_id", "variable_id", "variant_label">>

\* getattr(self, f"get_{key}")()
cmip7_get(g, key, uuid4) ==
    CASE key = "Conventions" -> cmip7_get_Conventions(g)
      [] key = "activity_id" -> cmip7_get_activity_id(g)
      [] key = "creation_date" -> cmip7_get_creation_date(g)
      [] key = "data_specs_version" -> cmip7_get_data_specs_version(g)
      [] key = "experiment" -> cmip7_get_experiment(g)
      [] key = "experiment_id" -> cmip7_get_experiment_id(g)
      [] key \in {"forcing_index", "initialization_index", "physics_index",
                  "realization_index"} -> cmip7_get_index(g, key)
      [] key = "frequency" -> cmip7_get_frequency(g)
      [] key = "further_info_url" -> cmip7_get_further_info_url(g)
      [] key = "grid" -> cmip7_get_grid(g)
      [] key = "grid_label" -> cmip7_get_grid_label(g)
      [] key = "institution" -> cmip7_get_institution(g)
      [] key = "institution_id" -> cmip7_get_institution_id(g)
      [] key = "license" -> cmip7_get_license(g)
      [] key = "mip_era" -> cmip7_get_mip_era(g)
      [] key = "nominal_resolution" -> cmip7_get_nominal_resolution(g)
      [] key = "product" -> cmip7_get_product(g)
      [] key = "realm" -> cmip7_get_realm(g)
      [] key = "source" -> cmip7_get_source(g)
      [] key = "source_id" -> cmip7_get_source_id(g)
      [] key = "source_type" -> cmip7_get_source_type(g)
      [] key = "sub_experiment" -> cmip7_get_sub_experiment(g)
      [] key = "sub_experiment_id" -> cmip7_get_sub_experiment_id(g)
      [] key = "table_id" -> cmip7_get_table_id(g)
      [] key = "tracking_id" -> get_tracking_id(uuid4)
      [] key = "variable_id" -> cmip7_get_variable_id(g)
      [] key = "variant_label" -> cmip7_get_variant_label(g)
      [] OTHER -> Err("AttributeError")

\* self.required_global_attributes of CMIP7GlobalAttributes
cmip7_required(g) ==
    IF g.cv.required_global_attributes # Missing /\ Truthy(g.cv.required_global_attributes)
    THEN [k \in 1..Len(g.cv.required_global_attributes.items) |->
              g.cv.required_global_attributes.items[k].s]
    ELSE cmip7_required_global_attributes

\* global_attributes(): the mapping d, or the exception of the first
\* accessor that raises.
cmip7_global_attributes(g, uuid4) ==
    LET keys == cmip7_required(g)
        failing == {k \in 1..Len(keys) : cmip7_get(g, keys[k], uuid4).exc # None}
    IN IF failing # {}
       THEN [exc |-> cmip7_get(g, keys[CHOOSE k \in failing : \A j \in failing : k <= j],
                               uuid4).exc,
             d |-> <<>>]
       ELSE [exc |-> None,
             d |-> [key \in {keys[k] : k \in 1..Len(keys)} |-> cmip7_get(g, key, uuid4).val]]

(***************************************************************************)
(* CMIP6GlobalAttributes.  g.cv.source_id is cv["source_id"][source_id]    *)
(* and g.cv.experiment_id is cv["experiment_id"][experiment_id] (NoEntry:  *)
(* KeyError); g.drv holds the fields of drv.table_header.                  *)
(***************************************************************************)
cmip6_get_source_id(g) == rule_item(g, "source_id")
cmip6_get_experiment_id(g) == rule_item(g, "experiment_id")
cmip6_get_variant_label(g) == rule_item(g, "variant_label")
cmip6_get_variable_id(g) == rule_item(g, "cmor_variable")
cmip6_get_grid_label(g) == rule_item(g, "grid_label")


\* Resolution among candidates that takes the first one when there is no
\* override.
resolve_candidates_first_pick(candidates, user_value) ==
    IF Len(candidates.items) = 0 THEN Err("IndexError")
    ELSE IF Truthy(user_value) /\ InList(user_value, candidates) THEN Ok(user_value)
    ELSE Ok(candidates.items[1])

\* The resolution get_institution_id and get_activity_id of CMIP6 share:
\* with more than one candidate the rule's override decides.
resolve_candidates(candidates, user_value) ==
    IF Len(candidates.items) > 1
    THEN (IF Truthy(user_value)
          THEN (IF ~InList(user_value, candidates) THEN Err("ValueError")
                ELSE Ok(user_value))
          ELSE Err("ValueError"))
    ELSE IF Len(candidates.items) = 0 THEN Err("IndexError")
    ELSE Ok(candidates.items[1])

cmip6_get_institution_id(g) ==
    LET source_id == cmip6_get_source_id(g) IN
    IF source_id.exc # None THEN source_id
    ELSE IF g.cv.source_id = NoEntry \/ g.cv.source_id.institution_id = Missing
    THEN Err("KeyError")
    ELSE resolve_candidates(g.cv.source_id.institution_id,
                            rule_get(g, "institution_id", PyNone))

cmip6_get_activity_id(g) ==
    LET experiment_id == cmip6_get_experiment_id(g) IN
    IF experiment_id.exc # None THEN experiment_id
    ELSE IF g.cv.experiment_id = NoEntry \/ g.cv.experiment_id.activity_id = Missing
    THEN Err("KeyError")
    ELSE resolve_candidates(g.cv.experiment_id.activity_id,
                            rule_get(g, "activity_id", PyNone))

cmip6_get_sub_experiment_id(g) ==
    LET experiment_id == cmip6_get_experiment_id(g) IN
    IF experiment_id.exc # None THEN experiment_id
    ELSE IF g.cv.experiment_id = NoEntry \/ g.cv.experiment_id.sub_experiment_id = Missing
    THEN Err("KeyError")
    ELSE Ok(Str(join(" ", g.cv.experiment_id.sub_experiment_id.items)))

\* self.drv.table_header.<name>
table_header(g, name) == IF g.drv[name] = Missing THEN Err("AttributeError") ELSE Ok(g.drv[name])

cmip6_get_table_id(g) == table_header(g, "table_id")
cmip6_get_mip_era(g) == table_header(g, "mip_era")

\* The accessors subdir_path calls, by strategy.
get_attribute(g, key, uuid4) ==
    IF g.strategy = "CMIP7" THEN cmip7_get(g, key, uuid4)
    ELSE CASE key = "mip_era" -> cmip6_get_mip_era(g)
           [] key = "activity_id" -> cmip6_get_activity_id(g)
           [] key = "institution_id" -> cmip6_get_institution_id(g)
           [] key = "source_id" -> cmip6_get_source_id(g)
           [] key = "experiment_id" -> cmip6_get_experiment_id(g)
           [] key = "variant_label" -> cmip6_get_variant_label(g)
           [] key = "sub_experiment_id" -> cmip6_get_sub_experiment_id(g)
           [] key = "sub_experiment" -> sub_experiment_of(cmip6_get_sub_experiment_id(g))
           [] key = "table_id" -> cmip6_get_table_id(g)
           [] key = "variable_id" -> cmip6_get_variable_id(g)
           [] key = "grid_label" -> cmip6_get_grid_label(g)
           [] key = "tracking_id" -> get_tracking_id(uuid4)
           [] OTHER -> Err("AttributeError")

\* Zero-padded decimal of n in `width` digits (strftime's %m, %d, %Y).
RECURSIVE zero_padded(_, _)
zero_padded(n, width) ==
    IF width = 0 THEN ""
    ELSE zero_padded(n \div 10, width - 1) \o ToString(n % 10)

\* f"v{datetime.datetime.today().strftime('%Y%m%d')}"
version_of_today(today) ==
    "v" \o zero_padded(today.year, 4) \o zero_padded(today.month, 2)
        \o zero_padded(today.day, 2)


\* member_id that never appends the sub-experiment.
member_id_without_sub_experiment(variant_label, sub_experiment_id) == variant_label

\* member_id of subdir_path
member_id_of(variant_label, sub_experiment_id) ==
    IF sub_experiment_id # "none"
    THEN variant_label \o "-" \o sub_experiment_id
    ELSE variant_label

\* The accessors subdir_path calls, in the order it calls them.
SubdirAccessors ==
    <<"mip_era", "activity_id", "institution_id", "source_id", "experiment_id",
      "variant_label", "sub_experiment_id", "table_id", "variable_id", "grid_label">>

\* subdir_path() of both classes
subdir_path(g, today) ==
    LET at(k) == get_attribute(g, SubdirAccessors[k], "")
        failing == {k \in 1..10 : at(k).exc # None}
        v(k) == at(k).val.s
    IN IF failing # {}
       THEN [exc |-> at(CHOOSE k \in failing : \A j \in failing : k <= j).exc, path |-> ""]
       ELSE [exc |-> None,
             path |-> v(1) \o "/" \o v(2) \o "/" \o v(3) \o "/" \o v(4) \o "/" \o v(5)
                      \o "/" \o member_id_of(v(6), v(7)) \o "/" \o v(8) \o "/" \o v(9)
                      \o "/" \o v(10) \o "/" \o version_of_today(today)]

(***************************************************************************)
(* Rules, CVs and variables the attribute resolvers are applied to.        *)
(***************************************************************************)
RuleKeys ==
    {"variant_label", "source_id", "institution_id", "experiment_id", "grid_label",
     "creation_date", "cmor_variable", "source", "release_year", "institution", "realm",
     "model_component", "grid", "description", "nominal_resolution", "resolution",
     "license", "experiment", "activity_id", "sub_experiment_id", "source_type",
     "table_id", "compound_name", "mip_era", "frequency", "Conventions", "product",
     "data_specs_version"}

Institutions == <<Str("AWI"), Str("MPI-M"), Str("DKRZ"), Str("UHH")>>
Activities == <<Str("CMIP"), Str("ScenarioMIP"), Str("DAMIP"), Str("AerChemMIP")>>

\* The choices a fixture is built from.  `overrides` says whether the rule
\* supplies the optional descriptive fields; `cv_populated` whether the CV
\* has the experiment's entry and the project lists.
BaseChoice ==
    [strategy |-> "CMIP7", institution_id |-> Str("AWI"), num_institutions |-> 1,
     num_activities |-> 1, activity_id |-> Str("CMIP"), variant_label |-> Str("r1i1p1f1"),
     cmip6_table |-> Missing, table_id |-> Str("Amon"), compound_name |-> Missing,
     sub_experiment |-> PyList(<<Str("none")>>), cv_populated |-> TRUE,
     overrides |-> FALSE, drv |-> "dict"]

rule_of(o) ==
    [key \in RuleKeys |->
        CASE key = "source_id" -> Str("AWI-CM-1-1-HR")
          [] key = "grid_label" -> Str("gn")
          [] key = "cmor_variable" -> Str("tas")
          [] key = "experiment_id" -> Str("historical")
          [] key = "creation_date" -> Str("2026-01-05T12:00:00Z")
          [] key = "variant_label" -> o.variant_label
          [] key = "institution_id" -> o.institution_id
          [] key = "activity_id" -> o.activity_id
          [] key = "table_id" -> o.table_id
          [] key = "compound_name" -> o.compound_name
          [] key = "realm" -> IF o.overrides THEN Str("atmos") ELSE Missing
          [] key = "frequency" -> IF o.overrides THEN Str("mon") ELSE Missing
          [] key = "grid" -> IF o.overrides THEN Str("native atmosphere T127 grid") ELSE Missing
          [] key = "nominal_resolution" -> IF o.overrides THEN Str("100 km") ELSE Missing
          [] key = "source_type" -> IF o.overrides THEN Str("AOGCM BGC") ELSE Missing
          [] key = "data_specs_version" -> IF o.overrides THEN Str("01.00.33") ELSE Missing
          [] key = "release_year" -> IF o.overrides THEN PyInt("2018") ELSE Missing
          [] key = "mip_era" -> IF o.overrides THEN Str("CMIP7") ELSE Missing
          [] OTHER -> Missing]

first_k(xs, k) == PyList(SubSeq(xs, 1, k))

cv_of(o) ==
    "mip-era" :> (IF o.strategy = "CMIP7" /\ o.cv_populated
                  THEN PyList(<<Str("CMIP7")>>) ELSE Missing) @@
    [experiment |->
        IF o.strategy = "CMIP7" /\ o.cv_populated
        THEN ("present" :> TRUE @@
              "description" :> Str("all-forcing simulation of the recent past") @@
              "activity" :> first_k(Activities, o.num_activities) @@
              "sub-experiment" :> o.sub_experiment @@
              "sub_experiment_id" :> Missing @@
              "model-realms" :> PyList(<<PyDict("aogcm"), PyDict(""), Str("bgc")>>))
        ELSE NoEntry,
     license |-> IF o.strategy = "CMIP7" /\ o.cv_populated
                 THEN PyList(<<PyDict("cc-by-4.0")>>) ELSE Missing,
     product |-> IF o.strategy = "CMIP7" /\ o.cv_populated
                 THEN PyList(<<Str("model-output")>>) ELSE Missing,
     required_global_attributes |-> IF o.strategy = "CMIP7" THEN PyList(<<>>) ELSE Missing,
     source_id |->
        IF o.strategy = "CMIP6" /\ o.cv_populated
        THEN [present |-> TRUE, institution_id |-> first_k(Institutions, o.num_institutions)]
        ELSE NoEntry,
     experiment_id |->
        IF o.strategy = "CMIP6" /\ o.cv_populated
        THEN [present |-> TRUE,
              activity_id |-> first_k(Activities, o.num_activities),
              sub_experiment_id |-> IF o.sub_experiment = Missing
                                    THEN PyList(<<Str("none")>>) ELSE o.sub_experiment]
        ELSE NoEntry]

drv_of(o) ==
    [cmip6_table |-> o.cmip6_table,
     modeling_realm |-> IF o.drv = "none" THEN Missing ELSE Str("atmos"),
     frequency |-> IF o.drv = "none" THEN Missing ELSE Str("mon"),
     version |-> CASE o.drv = "none" -> Missing
                   [] o.drv = "numeric_version" -> PyInt("7")
                   [] OTHER -> Str("v1.2.2.2"),
     table_id |-> IF o.strategy = "CMIP6" THEN Str("Amon") ELSE Missing,
     mip_era |-> IF o.strategy = "CMIP6" THEN Str("CMIP6") ELSE Missing]

\* GlobalAttributes.__init__(drv, cv, rule_dict)
MakeAttributes(o) ==
    [strategy |-> o.strategy, drv |-> drv_of(o), cv |-> cv_of(o), rule_dict |-> rule_of(o)]

\* Fixtures that vary what institution, activity and sub-experiment
\* resolution look at.
ResolutionChoices ==
    {[BaseChoice EXCEPT !.strategy = s, !.institution_id = i, !.num_institutions = ni,
                        !.num_activities = na, !.activity_id = a, !.sub_experiment = se,
                        !.cv_populated = cv] :
        s \in {"CMIP6", "CMIP7"},
        i \in {Missing, Str(""), Str("AWI"), Str("MPI-M"), Str("NCAR")},
        ni \in 1..NumCandidates,
        na \in 0..NumCandidates,
        a \in {Missing, Str("CMIP"), Str("C4MIP")},
        se \in {Missing, PyList(<<Str("none")>>), PyList(<<Str("s1960")>>),
                PyList(<<Str("s1960"), Str("s1961")>>)},
        cv \in BOOLEAN}

CompoundNames ==
    {Missing, Str(""),
     Str("atmos.tas.tavg-h2m-hxy-u.mon.GLB"),
     Str("ocnBgchem.fgco2.tavg-u-hxy-sea.mon.GLB"),
     Str("ocean.tos.tavg-u-hxy-sea.day.GLB"),
     Str("seaIce.siconc.tavg-u-hxy-u.mon.GLB"),
     Str("land.mrso.tavg-u-hxy-lnd.mon.GLB"),
     Str("landIce.snc.tavg-u-hxy-lnd.yr.GLB"),
     Str("aerosol.od550aer.tavg-u-hxy-u.3hr.GLB"),
     Str("atmos.tas.tavg-h2m-hxy-u.mon.GLB.extra"),
     Str("atmos.tas.mon.GLB"),
     Str(".tas.tavg-h2m-hxy-u.mon.GLB"),
     Str("Amon.tas")}

\* Fixtures that vary the three sources of the CMIP7 table_id.
TableChoices ==
    {[BaseChoice EXCEPT !.cmip6_table = ct, !.table_id = t, !.compound_name = cn] :
        ct \in {Missing, Str("Amon")},
        t \in {Missing, Str("Omon")},
        cn \in CompoundNames}

\* Fixtures that vary what the CV, the variable and the rule supply.
SupplyChoices ==
    {[BaseChoice EXCEPT !.overrides = ov, !.drv = d, !.cv_populated = cv,
                        !.variant_label = vl, !.sub_experiment = se] :
        ov \in BOOLEAN,
        d \in {"none", "dict", "numeric_version"},
        cv \in BOOLEAN,
        vl \in {Str("r1i1p1f1"), Str("r10i2p1f3"), Str("invalid")},
        se \in {Missing, PyList(<<Str("none")>>), PyList(<<Str("s1960")>>)}}

AttributeObjects ==
    {MakeAttributes(o) : o \in ResolutionChoices \cup TableChoices \cup SupplyChoices}

\* The accessors modelled for a strategy.
Accessors(strategy) ==
    IF strategy = "CMIP7"
    THEN {cmip7_required_global_attributes[k] : k \in 1..Len(cmip7_required_global_attributes)}
    ELSE {SubdirAccessors[k] : k \in 1..10} \cup {"sub_experiment", "tracking_id"}

\* uuid.uuid4() and datetime.datetime.today(), as the calls see them.
Uuid4s == {"0b9c4f4e-3d1c-4c1e-9d57-6f0a2f6f3b11", "e7a1d3a2-58c6-4d0b-8a4e-1c2b3d4e5f60"}
Todays == {[year |-> 2026, month |-> 1, day |-> 5], [year |-> 2025, month |-> 12, day |-> 31]}

InitAttributes ==
    /\ locator_class = "ResourceLocator"
    /\ XDG_CACHE_HOME = None
    /\ user_path = NoPath
    /\ remote = "ok"
    /\ fs = <<>>
    /\ call = [c \in Callers |-> IdleCall]
    /\ interface = NoInterface
    /\ conv = NoConversion
    /\ \E g \in AttributeObjects :
          ga = [pc |-> "constructed", g |-> g, op |-> None, arg |-> None, result |-> None]

\* One accessor get_<key>() called on the object.
call_accessor(key, uuid4) ==
    /\ ga.pc = "constructed"
    /\ key \in Accessors(ga.g.strategy)
    /\ ga' = [ga EXCEPT !.pc = "returned", !.op = key,
                        !.arg = IF key = "tracking_id" THEN uuid4 ELSE None,
                        !.result = get_attribute(ga.g, key, uuid4)]
    /\ UNCHANGED <<locator_class, XDG_CACHE_HOME, user_path, remote, fs, call, interface, conv>>

call_global_attributes(uuid4) ==
    /\ ga.pc = "constructed"
    /\ ga.g.strategy = "CMIP7"
    /\ ga' = [ga EXCEPT !.pc = "returned", !.op = "global_attributes", !.arg = uuid4,
                        !.result = cmip7_global_attributes(ga.g, uuid4)]
    /\ UNCHANGED <<locator_class, XDG_CACHE_HOME, user_path, remote, fs, call, interface, conv>>

call_subdir_path(today) ==
    /\ ga.pc = "constructed"
    /\ ga' = [ga EXCEPT !.pc = "returned", !.op = "subdir_path", !.arg = today,
                        !.result = subdir_path(ga.g, today)]
    /\ UNCHANGED <<locator_class, XDG_CACHE_HOME, user_path, remote, fs, call, interface, conv>>

NextAttributes ==
    \/ \E key \in Accessors("CMIP7") \cup Accessors("CMIP6") :
          \E uuid4 \in (IF key = "tracking_id" THEN Uuid4s ELSE {""}) :
             call_accessor(key, uuid4)
    \/ \E uuid4 \in Uuid4s : call_global_attributes(uuid4)
    \/ \E today \in Todays : call_subdir_path(today)

SpecAttributes == InitAttributes /\ [][NextAttributes]_vars

(***************************************************************************)
(* Properties of the attribute resolvers.                                  *)
(***************************************************************************)
\* The call `op` has returned or raised on an object of the strategy.
Called(strategy, op) ==
    ga.pc = "returned" /\ ga.g.strategy = strategy /\ ga.op = op

\* The institution candidates the CMIP6 CV lists for the rule's source_id.
InstitutionCandidates == ga.g.cv.source_id.institution_id

\* C12: CMIP6 get_institution_id on a source_id with two or more institution
\* candidates raises ValueError when the rule gives no institution_id
\* override (or one that is not a candidate) and returns the override when
\* it is one of the candidates; it never answers with a candidate the rule
\* did not name.
C12_AmbiguousInstitution ==
    (/\ Called("CMIP6", "institution_id")
     /\ ga.g.cv.source_id # NoEntry
     /\ Len(InstitutionCandidates.items) >= 2) =>
        LET override == ga.g.rule_dict["institution_id"] IN
        /\ ~Truthy(override) => ga.result = Err("ValueError")
        /\ InList(override, InstitutionCandidates) => ga.result = Ok(override)
        /\ ga.result.exc = None => ga.result.val = override

C12_Witness ==
    /\ Called("CMIP6", "institution_id")
    /\ ga.g.cv.source_id # NoEntry
    /\ Len(InstitutionCandidates.items) >= 2
    /\ ga.g.rule_dict["institution_id"] = InstitutionCandidates.items[2]
    /\ ga.result = Ok(InstitutionCandidates.items[2])

\* What the rule, the CV and the variable supply for an attribute of the
\* CMIP7 strategy that has a built-in fallback.
Supplied(g, key) ==
    CASE key = "grid" ->
            g.rule_dict["grid"] # Missing \/ g.rule_dict["description"] # Missing
      [] key = "nominal_resolution" ->
            g.rule_dict["nominal_resolution"] # Missing \/ g.rule_dict["resolution"] # Missing
      [] key = "source_type" ->
            \/ g.rule_dict["source_type"] # Missing
            \/ (has_experiment(g) /\ g.cv.experiment["model-realms"] # Missing)
      [] key = "data_specs_version" ->
            g.rule_dict["data_specs_version"] # Missing \/ g.drv.version # Missing
      [] key = "mip_era" -> g.rule_dict["mip_era"] # Missing \/ g.cv["mip-era"] # Missing
      [] key = "product" -> g.rule_dict["product"] # Missing \/ g.cv.product # Missing
      [] key = "Conventions" -> g.rule_dict["Conventions"] # Missing
      [] OTHER -> TRUE

\* C13: no accessor answers with a built-in default: when neither the CV,
\* the variable nor the rule supplies the attribute, the accessor raises
\* instead of returning a value.
C13_NoSilentDefault ==
    \A key \in Accessors("CMIP7") :
        (Called("CMIP7", key) /\ ~Supplied(ga.g, key)) => ga.result.exc # None

(***************************************************************************)
(* _variant_label_components applied to labels of every shape.             *)
(***************************************************************************)
\* The digit strings put after each of the letters r, i, p, f.
IndexStrings == {ToString(n) : n \in 0..MaxIndex} \cup {""}

Labels ==
    {prefix \o "r" \o r \o "i" \o i \o "p" \o p \o "f" \o f \o suffix :
        prefix \in {"", "x"}, r \in IndexStrings, i \in IndexStrings,
        p \in IndexStrings, f \in IndexStrings,
        suffix \in {"", "\n", "\n\n", " ", "x"}}
    \cup {"invalid", "", "R1I1P1F1", "r1i1p1", "r1p1i1f1", "r007i1p1f10", "r10i2p1f3"}

InitVariantLabel ==
    /\ locator_class = "ResourceLocator"
    /\ XDG_CACHE_HOME = None
    /\ user_path = NoPath
    /\ remote = "ok"
    /\ fs = <<>>
    /\ call = [c \in Callers |-> IdleCall]
    /\ interface = NoInterface
    /\ conv = NoConversion
    /\ \E strategy \in {"CMIP6", "CMIP7"}, label \in Labels :
          ga = [pc |-> "label", strategy |-> strategy, label |-> label, result |-> None]

\* self._variant_label_components(label)
call_variant_label_components ==
    /\ ga.pc = "label"
    /\ ga' = [ga EXCEPT !.pc = "parsed", !.result = _variant_label_components(ga.label)]
    /\ UNCHANGED <<locator_class, XDG_CACHE_HOME, user_path, remote, fs, call, interface, conv>>

NextVariantLabel == call_variant_label_components

SpecVariantLabel == InitVariantLabel /\ [][NextVariantLabel]_vars

\* The whole label is r<int>i<int>p<int>f<int>, nothing before or after.
WholeLabelHasTheForm(label) ==
    LET r == group_end(label, 1, "r")
        i == IF r = 0 THEN 0 ELSE group_end(label, r, "i")
        p == IF i = 0 THEN 0 ELSE group_end(label, i, "p")
        f == IF p = 0 THEN 0 ELSE group_end(label, p, "f")
    IN f = Len(label) + 1

\* The label is part of the text.
Names(message, label) ==
    \E k \in 1..(Len(message) - Len(label) + 1) :
        SubSeq(message, k, k + Len(label) - 1) = label

\* C14: _variant_label_components returns the four integer indices exactly
\* when the whole label has the form r<int>i<int>p<int>f<int>, and for every
\* other string raises an error whose message names the label.
C14_WholeLabelOrError ==
    ga.pc = "parsed" =>
        IF WholeLabelHasTheForm(ga.label)
        THEN ga.result.exc = None
        ELSE ga.result.exc # None /\ Names(ga.result.message, ga.label)

CompoundParts == split(ga.g.rule_dict["compound_name"].s, ".")

\* get_table_id had to synthesize: no cmip6_table on the variable, no
\* table_id in the rule, and a compound name of at least five parts whose
\* realm is not empty.
Synthesizes ==
    /\ Called("CMIP7", "table_id")
    /\ ga.g.drv.cmip6_table = Missing
    /\ ga.g.rule_dict["table_id"] = Missing
    /\ Truthy(ga.g.rule_dict["compound_name"])
    /\ Len(CompoundParts) >= 5
    /\ CompoundParts[1] # ""

\* The realm prefix of the fixed table.
RealmPrefix(realm) ==
    CASE realm = "atmos" -> "A"
      [] realm \in {"ocean", "ocn", "ocnBgchem"} -> "O"
      [] realm = "seaIce" -> "SI"
      [] realm = "land" -> "L"
      [] realm = "landIce" -> "LI"
      [] OTHER -> upper(SubSeq(realm, 1, 1))

ValueOf(key) == get_attribute(ga.g, key, "").val.s

\* subdir_path has returned a path.
ReturnedPath == ga.pc = "returned" /\ ga.op = "subdir_path" /\ ga.result.exc = None

NotInMapping == [present |-> FALSE]
NoneInMapping == [present |-> TRUE, entries |-> None]
MappingOf(entries) == [present |-> TRUE, entries |-> entries]

\* d[key] on a dict written as a sequence of <<key, value>> pairs
HasKey(d, key) == \E k \in 1..Len(d) : d[k][1] = key
Item(d, key) == d[CHOOSE k \in 1..Len(d) : d[k][1] = key][2]

\* _get_units(da, rule): the triple it returns, or the exception it raises.
_get_units(da, rule) ==
    LET model_unit == rule.model_unit
        from_unit == IF model_unit # None THEN model_unit ELSE da.units
        to_unit == rule.units
        dimless_mapping == rule.dimensionless_unit_mappings
        raised(e) == [exc |-> e, from_unit |-> None, to_unit |-> None,
                      to_unit_dimensionless_mapping |-> None]
        after_mapping(alias) ==
            IF from_unit = None THEN raised("ValueError")
            ELSE IF ~((to_unit # None /\ to_unit # "") \/ (alias # None /\ alias # ""))
                 THEN raised("ValueError")
            ELSE [exc |-> None, from_unit |-> from_unit, to_unit |-> to_unit,
                  to_unit_dimensionless_mapping |-> alias]
    IN IF dimless_mapping.present
       THEN IF dimless_mapping.entries = None THEN raised("TypeError")
            ELSE IF ~HasKey(dimless_mapping.entries, to_unit) THEN raised("KeyError")
            ELSE LET alias == Item(dimless_mapping.entries, to_unit) IN
                 IF alias = None \/ alias = "" THEN raised("ValueError")
                 ELSE after_mapping(alias)
       ELSE after_mapping(None)

(***************************************************************************)
(* The unit registry ureg, as far as the module relies on it.  The state   *)
(* of the registry is the set of definitions made through ureg.define.     *)
(***************************************************************************)
\* The units the registry knows from the start: symbol, long name and the
\* dimension each one measures.
RegistryUnits ==
    <<[symbol |-> "kg", name |-> "kilogram", dimension |-> "mass"],
      [symbol |-> "g", name |-> "gram", dimension |-> "mass"],
      [symbol |-> "m", name |-> "meter", dimension |-> "length"],
      [symbol |-> "s", name |-> "second", dimension |-> "time"],
      [symbol |-> "K", name |-> "kelvin", dimension |-> "temperature"],
      [symbol |-> "degC", name |-> "degree_Celsius", dimension |-> "temperature"],
      [symbol |-> "mol", name |-> "mole", dimension |-> "substance"]>>

Dimensions == {"mass", "length", "time", "temperature", "substance"}

\* periodic_table: the symbols getattr finds an element for.
periodic_table == {"C", "N", "Na", "O", "Fe"}

\* s[i-1:j]: a slice, cut off at the end of the string.
slice(s, i, j) == IF i > Len(s) THEN "" ELSE SubSeq(s, i, IF j > Len(s) THEN Len(s) ELSE j)

\* \w of the pattern: letters, digits and the underscore.
Letters == {SubSeq(LowerCase, k, k) : k \in 1..26} \cup {SubSeq(UpperCase, k, k) : k \in 1..26}
IsLetter(ch) == ch \in Letters
IsWordChar(ch) == IsLetter(ch) \/ IsDigit(ch) \/ ch = "_"

\* The length of the longest run of word characters that starts at k.
RECURSIVE word_run(_, _)
word_run(s, k) ==
    IF k <= Len(s) /\ IsWordChar(SubSeq(s, k, k)) THEN 1 + word_run(s, k + 1) ELSE 0

\* pattern.search(s) for r"mol(?P<symbol>\w+)": the leftmost "mol" that is
\* followed by a word character, with the whole run after it as symbol.
MolMatches(s) ==
    {k \in 1..Len(s) : slice(s, k, k + 2) = "mol" /\ word_run(s, k + 3) > 0}

pattern_search(s) ==
    IF MolMatches(s) = {} THEN [found |-> FALSE, group |-> "", symbol |-> ""]
    ELSE LET k == CHOOSE j \in MolMatches(s) : \A i \in MolMatches(s) : j <= i
             n == word_run(s, k + 3)
         IN [found |-> TRUE, group |-> SubSeq(s, k, k + 2 + n),
             symbol |-> SubSeq(s, k + 3, k + 2 + n)]

\* The tokens of a unit string: the pieces between blanks, with "/" as a
\* token of its own.
RECURSIVE slash_tokens(_)
slash_tokens(pieces) ==
    IF pieces = <<>> THEN <<>>
    ELSE IF Len(pieces) = 1 THEN <<Head(pieces)>>
    ELSE <<Head(pieces), "/">> \o slash_tokens(Tail(pieces))

RECURSIVE tokens_of(_)
tokens_of(pieces) ==
    IF pieces = <<>> THEN <<>>
    ELSE slash_tokens(split(Head(pieces), "/")) \o tokens_of(Tail(pieces))

unit_tokens(s) == SelectSeq(tokens_of(split(s, " ")), LAMBDA t : t # "")

\* A token that is a number.
IsNumber(token) == IsDigit(slice(token, 1, 1)) \/ slice(token, 1, 1) = "."

\* The letters a unit token starts with, and the exponent written after
\* them ("m-2" is m to the power -2).
RECURSIVE letter_run(_, _)
letter_run(s, k) ==
    IF k <= Len(s) /\ (IsLetter(SubSeq(s, k, k)) \/ SubSeq(s, k, k) = "_")
    THEN 1 + letter_run(s, k + 1) ELSE 0

unit_name(token) == SubSeq(token, 1, letter_run(token, 1))

exponent(token) ==
    LET rest == SubSeq(token, letter_run(token, 1) + 1, Len(token)) IN
    IF rest = "" THEN 1
    ELSE IF SubSeq(rest, 1, 1) = "-" THEN 0 - int(SubSeq(rest, 2, Len(rest)))
    ELSE int(rest)

\* The entry of the registry for a name: a unit it knew from the start, a
\* unit defined since, or one of the two with the prefix m (milli).
Lookup(registry, name) ==
    LET known(n) == (\E k \in 1..Len(RegistryUnits) : RegistryUnits[k].symbol = n)
                    \/ n \in registry
        entry(n) == IF n \in registry
                    THEN [symbol |-> n, name |-> n, dimension |-> "mass"]
                    ELSE RegistryUnits[CHOOSE k \in 1..Len(RegistryUnits) :
                                           RegistryUnits[k].symbol = n]
        unprefixed == slice(name, 2, Len(name))
    IN IF known(name) THEN [defined |-> TRUE, prefix |-> ""] @@ entry(name)
       ELSE IF slice(name, 1, 1) = "m" /\ known(unprefixed)
            THEN [defined |-> TRUE, prefix |-> "milli"] @@ entry(unprefixed)
       ELSE [defined |-> FALSE]

\* The unit tokens of a string (not the numbers, not the "/").
UnitTokens(s) ==
    LET tokens == unit_tokens(s) IN
    {k \in 1..Len(tokens) : tokens[k] # "/" /\ ~IsNumber(tokens[k])}

\* ureg(s) raises UndefinedUnitError: some name of s is not in the registry.
UndefinedUnit(registry, s) ==
    LET tokens == unit_tokens(s) IN
    \E k \in 1..Len(tokens) :
        tokens[k] # "/" /\ ~IsNumber(tokens[k]) /\ ~Lookup(registry, unit_name(tokens[k])).defined

\* handle_chemicals(s): the registry afterwards, or the exception.
handle_chemicals(registry, s) ==
    IF s = None THEN [exc |-> None, ureg |-> registry]
    ELSE IF ~UndefinedUnit(registry, s) THEN [exc |-> None, ureg |-> registry]
    ELSE LET match == pattern_search(s) IN
         IF ~match.found THEN [exc |-> None, ureg |-> registry]
         ELSE IF match.symbol \notin periodic_table
              THEN [exc |-> "ValueError", ureg |-> registry]
         ELSE [exc |-> None, ureg |-> registry \cup {match.group}]

\* The power of one dimension in a unit string: the exponents of its unit
\* tokens, negated for a token that follows "/".
RECURSIVE power_from(_, _, _, _)
power_from(registry, tokens, k, dimension) ==
    IF k > Len(tokens) THEN 0
    ELSE IF tokens[k] = "/" \/ IsNumber(tokens[k])
         THEN power_from(registry, tokens, k + 1, dimension)
    ELSE LET entry == Lookup(registry, unit_name(tokens[k]))
             sign == IF k > 1 /\ tokens[k - 1] = "/" THEN 0 - 1 ELSE 1
             own == IF entry.defined /\ entry.dimension = dimension
                    THEN sign * exponent(tokens[k]) ELSE 0
         IN own + power_from(registry, tokens, k + 1, dimension)

dimensionality(registry, s) ==
    [dimension \in Dimensions |-> power_from(registry, unit_tokens(s), 1, dimension)]

\* str(ureg.Quantity(to).units) == "dimensionless"
IsDimensionless(registry, s) ==
    \A dimension \in Dimensions : dimensionality(registry, s)[dimension] = 0

\* A unit string with a scaling factor: a number other than 1 in front of
\* the units ("0.001 kg"); pint_xarray refuses to quantify with it.
HasScalingFactor(s) ==
    LET tokens == unit_tokens(s) IN
    \E k \in 1..Len(tokens) : IsNumber(tokens[k]) /\ tokens[k] # "1"

\* str(units) as dequantify writes it: long names, " ** n" for powers,
\* " / " before the units of negative power, "dimensionless" for none.
RECURSIVE units_str(_, _, _)
units_str(registry, tokens, k) ==
    IF k > Len(tokens) THEN ""
    ELSE IF tokens[k] = "/" \/ IsNumber(tokens[k]) THEN units_str(registry, tokens, k + 1)
    ELSE LET entry == Lookup(registry, unit_name(tokens[k]))
             sign == IF k > 1 /\ tokens[k - 1] = "/" THEN 0 - 1 ELSE 1
             n == sign * exponent(tokens[k])
             size == IF n < 0 THEN 0 - n ELSE n
             term == entry.prefix \o entry.name
                     \o (IF size = 1 THEN "" ELSE " ** " \o ToString(size))
             rest == units_str(registry, tokens, k + 1)
         IN (IF n < 0 THEN " / " ELSE IF k = 1 THEN "" ELSE " * ") \o term \o rest

dequantified_units(registry, s) ==
    LET text == units_str(registry, unit_tokens(s), 1) IN
    IF UnitTokens(s) = {} THEN "dimensionless"
    ELSE IF slice(text, 1, 3) = " / " THEN "1" \o text
    ELSE IF slice(text, 1, 3) = " * " THEN slice(text, 4, Len(text))
    ELSE text

\* The outcome of a conversion: the "units" attribute of the array that is
\* returned, or the exception.
Converted(units) == [exc |-> None, units |-> units]
Raised(e) == [exc |-> e, units |-> None]

\* da.pint.quantify(from_unit).pint.to(to).pint.dequantify()
quantify_to_dequantify(registry, from_unit, to) ==
    IF UndefinedUnit(registry, from_unit) \/ UndefinedUnit(registry, to)
    THEN Raised("UndefinedUnitError")
    ELSE IF HasScalingFactor(from_unit) \/ HasScalingFactor(to)
         THEN Raised("ValueError: scaling factor")
    ELSE IF dimensionality(registry, from_unit) # dimensionality(registry, to)
         THEN Raised("DimensionalityError")
    ELSE Converted(dequantified_units(registry, to))

\* handle_scalar_units(da, from_unit, to): both branches end in a
\* dequantify of an array in the units of `to`, its number divided out.
handle_scalar_units(registry, from_unit, to) ==
    IF UndefinedUnit(registry, from_unit) \/ UndefinedUnit(registry, to)
    THEN Raised("UndefinedUnitError")
    ELSE IF dimensionality(registry, from_unit) # dimensionality(registry, to)
         THEN Raised("DimensionalityError")
    ELSE Converted(dequantified_units(registry, to))


\* convert that leaves the units attribute as dequantify wrote it.
assign_units_as_dequantified(new_da, to_unit) == new_da

\* if new_da.units != to_unit: new_da = new_da.assign_attrs({"units": to_unit})
assign_units(new_da, to_unit) ==
    IF new_da.units # to_unit THEN Converted(to_unit) ELSE new_da

\* The try block of convert, on the registry the two handle_chemicals calls
\* left: the scaling-factor ValueError goes to handle_scalar_units unless
\* the target is dimensionless, every other exception is raised again.
convert_try(registry, from_unit, to) ==
    CHOOSE new_da \in
        {IF attempt.exc = "ValueError: scaling factor" /\ ~IsDimensionless(registry, to)
         THEN handle_scalar_units(registry, from_unit, to)
         ELSE attempt : attempt \in {quantify_to_dequantify(registry, from_unit, to)}} : TRUE

\* convert(da, from_unit, to_unit, to_unit_dimensionless_mapping): the
\* outcome and the registry afterwards.
convert(registry, from_unit, to_unit, to_unit_dimensionless_mapping) ==
    LET to == IF to_unit_dimensionless_mapping # None /\ to_unit_dimensionless_mapping # ""
              THEN to_unit_dimensionless_mapping ELSE to_unit
        after(first, second) ==
            IF first.exc # None THEN [out |-> Raised(first.exc), ureg |-> first.ureg]
            ELSE IF second.exc # None THEN [out |-> Raised(second.exc), ureg |-> second.ureg]
            ELSE CHOOSE done \in
                    {IF new_da.exc # None THEN [out |-> new_da, ureg |-> second.ureg]
                     ELSE [out |-> assign_units(new_da, to_unit), ureg |-> second.ureg] :
                        new_da \in {convert_try(second.ureg, from_unit, to)}} : TRUE
        then(first) ==
            CHOOSE done \in
                {after(first, second) : second \in {handle_chemicals(first.ureg, to)}} : TRUE
    IN CHOOSE done \in {then(first) : first \in {handle_chemicals(registry, from_unit)}} : TRUE

\* handle_unit_conversion(da, rule); for a Dataset the converted array is
\* put back under rule.model_variable, for a DataArray it is returned.
handle_unit_conversion(registry, da, rule) ==
    CHOOSE done \in
        {IF got.exc # None THEN [out |-> Raised(got.exc), ureg |-> registry]
         ELSE convert(registry, got.from_unit, got.to_unit,
                      got.to_unit_dimensionless_mapping) : got \in {_get_units(da, rule)}} : TRUE

(***************************************************************************)
(* The unit functions applied to data arrays and rules.                    *)
(***************************************************************************)
\* The "units" attribute of the data (None: the attribute is absent).
DataUnits == {None, "kg", "g", "degC", "0.001 degC", "g m-2 s-1", "g / kg", "molC"}

\* rule.data_request_variable.units
TargetUnits ==
    {None, "", "kg", "K", "1", "0.001", "0.001 kg", "kg m-2 s-1", "molC", "mmolC m-3",
     "molXx", "molC / molN", "molC/molXx", "kg molNa / m2"}

\* rule.model_unit
ModelUnits == {None, "g"}

\* rule.dimensionless_unit_mappings, for the rule's variable.
Mappings ==
    {NotInMapping, NoneInMapping, MappingOf(<<>>),
     MappingOf(<< <<"1", "g / kg">>, <<"0.001", "g / kg">> >>),
     MappingOf(<< <<"1", "">>, <<"0.001", None>> >>),
     MappingOf(<< <<None, "g / kg">>, <<"", "g / kg">> >>)}

\* The aliases convert is called with directly.
Aliases == {None, "", "g / kg"}

\* The definitions made by earlier calls.
Registries == {{}, {"molC"}}

\* Inputs that vary what unit resolution looks at: the source unit, the
\* override, a target unit that may be missing, the alias table.
ResolutionInputs ==
    [ureg : {{}}, units : {None, "g / kg"}, model_unit : ModelUnits,
     to_unit : {None, "", "1", "0.001", "kg"}, mapping : Mappings]

\* Inputs that vary what the conversion looks at: the two units and the
\* registry.
ConversionInputs ==
    [ureg : Registries, units : DataUnits, model_unit : {None},
     to_unit : TargetUnits, mapping : {NotInMapping}]

InitUnits ==
    /\ locator_class = "ResourceLocator"
    /\ XDG_CACHE_HOME = None
    /\ user_path = NoPath
    /\ remote = "ok"
    /\ fs = <<>>
    /\ call = [c \in Callers |-> IdleCall]
    /\ interface = NoInterface
    /\ ga = NoAttributes
    /\ \E choice \in ResolutionInputs \cup ConversionInputs :
          conv = [pc |-> "ready", ureg |-> choice.ureg, da |-> [units |-> choice.units],
                  rule |-> [model_unit |-> choice.model_unit, units |-> choice.to_unit,
                            dimensionless_unit_mappings |-> choice.mapping],
                  op |-> None, arg |-> None, result |-> None]

\* _get_units(da, rule)
call_get_units ==
    /\ conv.pc = "ready"
    /\ conv' = [conv EXCEPT !.pc = "returned", !.op = "_get_units",
                            !.result = _get_units(conv.da, conv.rule)]
    /\ UNCHANGED <<locator_class, XDG_CACHE_HOME, user_path, remote, fs, call, interface, ga>>

\* handle_chemicals(s), s the target unit of the rule
call_handle_chemicals ==
    /\ conv.pc = "ready"
    /\ LET done == handle_chemicals(conv.ureg, conv.rule.units) IN
       conv' = [conv EXCEPT !.pc = "returned", !.op = "handle_chemicals",
                            !.arg = conv.rule.units, !.ureg = done.ureg,
                            !.result = [exc |-> done.exc]]
    /\ UNCHANGED <<locator_class, XDG_CACHE_HOME, user_path, remote, fs, call, interface, ga>>

\* convert(da, from_unit, to_unit, to_unit_dimensionless_mapping), called
\* with units that are there.
call_convert(to_unit_dimensionless_mapping) ==
    /\ conv.pc = "ready"
    /\ conv.da.units # None
    /\ conv.rule.units # None
    /\ conv.rule.units # "" \/ to_unit_dimensionless_mapping \notin {None, ""}
    /\ LET done == convert(conv.ureg, conv.da.units, conv.rule.units,
                           to_unit_dimensionless_mapping) IN
       conv' = [conv EXCEPT !.pc = "returned", !.op = "convert",
                            !.arg = to_unit_dimensionless_mapping, !.ureg = done.ureg,
                            !.result = done.out]
    /\ UNCHANGED <<locator_class, XDG_CACHE_HOME, user_path, remote, fs, call, interface, ga>>

\* handle_unit_conversion(da, rule), da a Dataset or a DataArray
call_handle_unit_conversion(is_dataset) ==
    /\ conv.pc = "ready"
    /\ LET done == handle_unit_conversion(conv.ureg, conv.da, conv.rule) IN
       conv' = [conv EXCEPT !.pc = "returned", !.op = "handle_unit_conversion",
                            !.arg = is_dataset, !.ureg = done.ureg, !.result = done.out]
    /\ UNCHANGED <<locator_class, XDG_CACHE_HOME, user_path, remote, fs, call, interface, ga>>

NextUnits ==
    \/ call_get_units
    \/ call_handle_chemicals
    \/ \E alias \in Aliases : call_convert(alias)
    \/ \E is_dataset \in BOOLEAN : call_handle_unit_conversion(is_dataset)

SpecUnits == InitUnits /\ [][NextUnits]_vars

(***************************************************************************)
(* Properties of the unit functions.                                       *)
(***************************************************************************)
\* The call `op` has returned or raised.
UnitsCalled(op) == conv.pc = "returned" /\ conv.op = op

\* The nominal target unit of the rule.
NominalTarget == conv.rule.units

\* C18: after a successful convert or handle_unit_conversion the "units"
\* attribute of the result is the nominal target unit to_unit, also when a
\* dimensionless alias was used for the arithmetic and when the
\* scaling-factor path was taken.
C18_UnitsAttributeIsTarget ==
    ((UnitsCalled("convert") \/ UnitsCalled("handle_unit_conversion"))
     /\ conv.result.exc = None) =>
        conv.result.units = NominalTarget

\* A conversion through the alias "g / kg" of the nominal target "0.001".
C18_Witness ==
    /\ UnitsCalled("handle_unit_conversion")
    /\ conv.result.exc = None
    /\ NominalTarget = "0.001"
    /\ _get_units(conv.da, conv.rule).to_unit_dimensionless_mapping = "g / kg"
    /\ conv.result.units = "0.001"

\* The source unit is missing: no "units" attribute and no model_unit.
SourceUnitMissing == conv.da.units = None /\ conv.rule.model_unit = None

\* The target unit is missing and the alias table gives no alias for it.
TargetUnitMissing ==
    LET mapping == conv.rule.dimensionless_unit_mappings IN
    /\ conv.rule.units \in {None, ""}
    /\ \/ ~mapping.present
       \/ mapping.entries = None
       \/ ~HasKey(mapping.entries, conv.rule.units)
       \/ Item(mapping.entries, conv.rule.units) \in {None, ""}

\* C19: _get_units raises ValueError whenever the source unit is missing and
\* whenever the target unit is missing and no dimensionless alias applies,
\* whatever the alias table of the rule holds.
C19_MissingUnitIsValueError ==
    (UnitsCalled("_get_units") /\ (SourceUnitMissing \/ TargetUnitMissing)) =>
        conv.result.exc = "ValueError"

\* The mol<Symbol> tokens of a unit string: every match of the pattern.
MolTokens(s) ==
    IF s = None THEN {}
    ELSE {[group |-> SubSeq(s, k, k + 2 + word_run(s, k + 3)),
           symbol |-> SubSeq(s, k + 3, k + 2 + word_run(s, k + 3))] : k \in MolMatches(s)}

\* C20: handle_chemicals registers every mol<Symbol> token of the string
\* whose symbol is an element of the periodic table, so that all of them are
\* units of the registry when it returns, and raises ValueError when the
\* string has a token with an unknown symbol.
C20_EveryTokenRegistered ==
    UnitsCalled("handle_chemicals") =>
        LET known(token) == Lookup(conv.ureg, token.group).defined IN
        /\ conv.result.exc = None =>
              \A token \in MolTokens(conv.arg) :
                  token.symbol \in periodic_table => known(token)
        /\ (\E token \in MolTokens(conv.arg) :
               token.symbol \notin periodic_table /\ ~known(token)) =>
              conv.result.exc = "ValueError"

(***************************************************************************)
(* CMIP7Interface.parse_compound_name and build_compound_name.             *)
(***************************************************************************)
\* parse_compound_name(cmip7_compound_name): the dict, or ValueError when
\* the name does not have five parts.
parse_compound_name(cmip7_compound_name) ==
    LET parts == split(cmip7_compound_name, ".") IN
    IF Len(parts) # 5 THEN [exc |-> "ValueError", val |-> <<>>]
    ELSE [exc |-> None,
          val |-> [realm |-> parts[1], variable |-> parts[2], branding |-> parts[3],
                   frequency |-> parts[4], region |-> parts[5]]]


\* build_compound_name that puts the region before the frequency.
build_compound_name_region_first(realm, variable, branding, frequency, region) ==
    realm \o "." \o variable \o "." \o branding \o "." \o region \o "." \o frequency

\* f"{realm}.{variable}.{branding}.{frequency}.{region}"
build_compound_name(realm, variable, branding, frequency, region) ==
    realm \o "." \o variable \o "." \o branding \o "." \o frequency \o "." \o region

\* The compound names the two functions are applied to: five-part names of
\* every combination of segments, and names with a part too few or too many.
NameSegments ==
    [realm : {"atmos", "ocean", "seaIce", ""},
     variable : {"tas", "tos"},
     branding : {"tavg-h2m-hxy-u", "tavg-u-hxy-sea"},
     frequency : {"mon", "day", "3hr"},
     region : {"GLB", "30S-90S"}]

FivePartNames ==
    {build_compound_name(c.realm, c.variable, c.branding, c.frequency, c.region) :
        c \in NameSegments}

CompoundNameInputs ==
    FivePartNames \cup {"", "tas", "Amon.tas", "atmos.tas.mon.GLB",
                        "atmos.tas.tavg-h2m-hxy-u.mon.GLB.extra", "...."}

InitCompoundName ==
    /\ locator_class = "ResourceLocator"
    /\ XDG_CACHE_HOME = None
    /\ user_path = NoPath
    /\ remote = "ok"
    /\ fs = <<>>
    /\ call = [c \in Callers |-> IdleCall]
    /\ interface = NoInterface
    /\ ga = NoAttributes
    /\ \E x \in CompoundNameInputs :
          conv = [pc |-> "name", x |-> x, parsed |-> None, built |-> None]

\* parsed = interface.parse_compound_name(x)
call_parse_compound_name ==
    /\ conv.pc = "name"
    /\ conv' = [conv EXCEPT !.pc = "parsed", !.parsed = parse_compound_name(conv.x)]
    /\ UNCHANGED <<locator_class, XDG_CACHE_HOME, user_path, remote, fs, call, interface, ga>>

\* interface.build_compound_name(**parsed)
call_build_compound_name ==
    /\ conv.pc = "parsed"
    /\ conv.parsed.exc = None
    /\ LET p == conv.parsed.val IN
       conv' = [conv EXCEPT !.pc = "built",
                            !.built = build_compound_name(p.realm, p.variable, p.branding,
                                                          p.frequency, p.region)]
    /\ UNCHANGED <<locator_class, XDG_CACHE_HOME, user_path, remote, fs, call, interface, ga>>

NextCompoundName ==
    \/ call_parse_compound_name
    \/ call_build_compound_name

SpecCompoundName == InitCompoundName /\ [][NextCompoundName]_vars

\* C21: for every compound name x of five parts, parsing it does not raise
\* and build_compound_name(**parse_compound_name(x)) is x again.
C21_RoundTrip ==
    /\ (conv.pc = "parsed" /\ Len(split(conv.x, ".")) = 5) => conv.parsed.exc = None
    /\ conv.pc = "built" => conv.built = conv.x

C21_Witness ==
    /\ conv.pc = "built"
    /\ conv.x = "ocean.tos.tavg-u-hxy-sea.3hr.30S-90S"
    /\ conv.parsed.val.frequency = "3hr"
    /\ conv.built = "ocean.tos.tavg-u-hxy-sea.3hr.30S-90S"

(***************************************************************************)
(* data_request/table.py: the CMIP7 tables.  all_var_info["Compound Name"] *)
(* is a sequence of entries [key, cmip6_cmor_table, modeling_realm,        *)
(* frequency] in the order of the dict; cmip6_cmor_table is None when the  *)
(* entry has no such field.  A variable made by                            *)
(* CMIP7DataRequestVariable.from_dict is written as the entry it is made   *)
(* from.                                                                   *)
(***************************************************************************)
NumEntries == 5

\* k.startswith(table_name)
startswith(k, table_name) == slice(k, 1, Len(table_name)) = table_name

\* An interval in minutes (1440 is the 1.0 of a day), and the None that
\* _approx_interval_from_frequency gives for "fx".
Minutes(n) == [defined |-> TRUE, minutes |-> n]
NoInterval == [defined |-> FALSE, minutes |-> 0]

\* _approx_interval_from_frequency: ValueError for a frequency that is not
\* in the list.
approx_interval_from_frequency(frequency) ==
    CASE frequency = "1hr" -> [exc |-> None, val |-> Minutes(60)]
      [] frequency = "3hr" -> [exc |-> None, val |-> Minutes(180)]
      [] frequency = "6hr" -> [exc |-> None, val |-> Minutes(360)]
      [] frequency = "day" -> [exc |-> None, val |-> Minutes(1440)]
      [] frequency = "dec" -> [exc |-> None, val |-> Minutes(5256000)]
      [] frequency = "fx" -> [exc |-> None, val |-> NoInterval]
      [] frequency = "mon" -> [exc |-> None, val |-> Minutes(43200)]
      [] frequency = "subhr" -> [exc |-> None, val |-> Minutes(24)]
      [] frequency = "yr" -> [exc |-> None, val |-> Minutes(525600)]
      [] OTHER -> [exc |-> "ValueError", val |-> NoInterval]

\* {k: v ... if v.get("cmip6_cmor_table") == table_name}
entries_of_table(all_var_info, table_name) ==
    SelectSeq(all_var_info, LAMBDA v : v.cmip6_cmor_table = table_name)

\* {k: v ... if k.startswith(table_name)}
entries_with_prefix(all_var_info, table_name) ==
    SelectSeq(all_var_info, LAMBDA v : startswith(v.key, table_name))


\* all_vars_for_table of CMIP7DataRequestTableHeader.from_all_var_info: the
\* entries of the table, and when there are none the entries whose key
\* starts with the table name.
all_vars_for_table(all_var_info, table_name) ==
    IF entries_of_table(all_var_info, table_name) # <<>>
    THEN entries_of_table(all_var_info, table_name)
    ELSE entries_with_prefix(all_var_info, table_name)

\* CMIP7DataRequestTableHeader.from_all_var_info(table_name, all_var_info)
header_from_all_var_info(table_name, all_var_info) ==
    LET group == all_vars_for_table(all_var_info, table_name)
        members == {group[k] : k \in 1..Len(group)}
        intervals == {approx_interval_from_frequency(v.frequency).val : v \in members}
                     \ {NoInterval}
    IN IF \E v \in members : approx_interval_from_frequency(v.frequency).exc # None
       THEN [exc |-> "ValueError"]
       ELSE [exc |-> None,
             table_id |-> table_name,
             realm |-> {v.modeling_realm : v \in members},
             approx_interval |-> IF intervals # {}
                                 THEN CHOOSE i \in intervals :
                                          \A j \in intervals : i.minutes <= j.minutes
                                 ELSE NoInterval,
             generic_levels |-> <<>>,
             all_vars_for_table |-> group]


\* The loop of CMIP7DataRequestTable.from_all_var_info: the variables of
\* the entries whose cmip6_cmor_table is the table name.
table_variables(all_var_info, table_name) == entries_of_table(all_var_info, table_name)

\* CMIP7DataRequestTable.from_all_var_info(table_name, all_var_info)
table_from_all_var_info(table_name, all_var_info) ==
    LET header == header_from_all_var_info(table_name, all_var_info) IN
    IF header.exc # None THEN [exc |-> header.exc]
    ELSE [exc |-> None, header |-> header,
          variables |-> table_variables(all_var_info, table_name)]

\* CMIP7DataRequestTable.find_all(path): the tables it yields, one for
\* every cmip6_cmor_table value of the packaged all_var_info.
find_all(all_var_info) ==
    LET table_ids == {all_var_info[k].cmip6_cmor_table : k \in 1..Len(all_var_info)}
                     \ {None, ""}
    IN {table_from_all_var_info(table_id, all_var_info) : table_id \in table_ids}

\* CMIP7DataRequestTable.from_dict(data): `table_name, var_name =
\* var_key.split(".")` raises ValueError for a key that does not split into
\* two pieces.
table_from_dict(data) ==
    LET keys == data.compound_names
        unpacks(var_key) == Len(split(var_key, ".")) = 2
    IN IF \E k \in 1..Len(keys) : ~unpacks(keys[k])
       THEN [exc |-> "ValueError", variables |-> <<>>]
       ELSE [exc |-> None,
             variables |-> [k \in 1..Len(keys) |->
                               [table_name |-> split(keys[k], ".")[1],
                                name |-> split(keys[k], ".")[2]]]]

\* The entries an all_var_info is made of.
VarInfoEntries ==
    <<[key |-> "atmos.tas.tavg-h2m-hxy-u.mon.GLB", cmip6_cmor_table |-> "Amon",
       modeling_realm |-> "atmos", frequency |-> "mon"],
      [key |-> "Amon.ps", cmip6_cmor_table |-> "Amon",
       modeling_realm |-> "atmos", frequency |-> "3hr"],
      [key |-> "ocean.tos.tavg-u-hxy-sea.mon.GLB", cmip6_cmor_table |-> "Omon",
       modeling_realm |-> "ocean", frequency |-> "mon"],
      [key |-> "ocean.areacello.ti-u-hxy-u.fx.GLB", cmip6_cmor_table |-> "Ofx",
       modeling_realm |-> "ocean", frequency |-> "fx"],
      [key |-> "seaIce.siconc.tavg-u-hxy-u.monC.GLB", cmip6_cmor_table |-> "SImon",
       modeling_realm |-> "seaIce", frequency |-> "monC"],
      [key |-> "atmos.pr.tavg-u-hxy-u.day.GLB", cmip6_cmor_table |-> "day",
       modeling_realm |-> "atmos", frequency |-> "day"]>>

\* How an entry takes part: not at all, with its cmip6_cmor_table field, or
\* without the field.
Shapes == {"absent", "tagged", "untagged"}

\* The all_var_info made of the first NumEntries entries in their shapes.
RECURSIVE var_info_from(_, _)
var_info_from(shape, k) ==
    IF k > NumEntries THEN <<>>
    ELSE (CASE shape[k] = "absent" -> <<>>
            [] shape[k] = "tagged" -> <<VarInfoEntries[k]>>
            [] OTHER -> <<[VarInfoEntries[k] EXCEPT !.cmip6_cmor_table = None]>>)
         \o var_info_from(shape, k + 1)

AllVarInfos == {var_info_from(shape, 1) : shape \in [1..NumEntries -> Shapes]}

TableNames == {"Amon", "Omon", "Ofx", "atmos", "ocean", "seaIce", "Emon"}

InitTables ==
    /\ locator_class = "ResourceLocator"
    /\ XDG_CACHE_HOME = None
    /\ user_path = NoPath
    /\ remote = "ok"
    /\ fs = <<>>
    /\ call = [c \in Callers |-> IdleCall]
    /\ interface = NoInterface
    /\ ga = NoAttributes
    /\ \E all_var_info \in AllVarInfos, table_name \in TableNames :
          conv = [pc |-> "tables", all_var_info |-> all_var_info, table_name |-> table_name,
                  op |-> None, result |-> None]

\* CMIP7DataRequestTableHeader.from_all_var_info(table_name, all_var_info)
call_header_from_all_var_info ==
    /\ conv.pc = "tables"
    /\ conv' = [conv EXCEPT !.pc = "returned", !.op = "header_from_all_var_info",
                    !.result = header_from_all_var_info(conv.table_name, conv.all_var_info)]
    /\ UNCHANGED <<locator_class, XDG_CACHE_HOME, user_path, remote, fs, call, interface, ga>>

\* CMIP7DataRequestTable.from_all_var_info(table_name, all_var_info)
call_table_from_all_var_info ==
    /\ conv.pc = "tables"
    /\ conv' = [conv EXCEPT !.pc = "returned", !.op = "table_from_all_var_info",
                    !.result = table_from_all_var_info(conv.table_name, conv.all_var_info)]
    /\ UNCHANGED <<locator_class, XDG_CACHE_HOME, user_path, remote, fs, call, interface, ga>>

\* list(CMIP7DataRequestTable.find_all(path)), all_var_info the packaged file
call_find_all ==
    /\ conv.pc = "tables"
    /\ conv' = [conv EXCEPT !.pc = "returned", !.op = "find_all",
                            !.result = find_all(conv.all_var_info)]
    /\ UNCHANGED <<locator_class, XDG_CACHE_HOME, user_path, remote, fs, call, interface, ga>>

\* CMIP7DataRequestTable.from_dict(data), data a raw table with the keys of
\* all_var_info under "Compound Name"
call_table_from_dict ==
    /\ conv.pc = "tables"
    /\ LET keys == [k \in 1..Len(conv.all_var_info) |-> conv.all_var_info[k].key] IN
       conv' = [conv EXCEPT !.pc = "returned", !.op = "table_from_dict",
                            !.result = table_from_dict([compound_names |-> keys])]
    /\ UNCHANGED <<locator_class, XDG_CACHE_HOME, user_path, remote, fs, call, interface, ga>>

NextTables ==
    \/ call_header_from_all_var_info
    \/ call_table_from_all_var_info
    \/ call_find_all
    \/ call_table_from_dict

SpecTables == InitTables /\ [][NextTables]_vars

\* The group the table of a name stands for: the entries with that
\* cmip6_cmor_table, or, when there are none, the entries whose compound
\* name starts with the name.
GroupOf(table_name) ==
    LET info == conv.all_var_info
        tagged == {k \in 1..Len(info) : info[k].cmip6_cmor_table = table_name}
        prefixed == {k \in 1..Len(info) : startswith(info[k].key, table_name)}
    IN {info[k] : k \in (IF tagged # {} THEN tagged ELSE prefixed)}

\* The entries of a sequence, as a set.
EntriesIn(entries) == {entries[k] : k \in 1..Len(entries)}

\* C22: the table built from all_var_info for a name holds exactly the
\* entries whose cmip6_cmor_table is the name, or, when no entry has it, the
\* entries whose compound name starts with the name; its variables and the
\* entries its header is computed from are this same group.
C22_OneGroupPerTable ==
    (conv.pc = "returned" /\ conv.op = "table_from_all_var_info" /\ conv.result.exc = None) =>
        /\ EntriesIn(conv.result.variables) = GroupOf(conv.table_name)
        /\ EntriesIn(conv.result.header.all_vars_for_table) = GroupOf(conv.table_name)

\* The raw table has keys, each a compound name of five components.
FiveComponentKeys ==
    /\ conv.all_var_info # <<>>
    /\ \A k \in 1..Len(conv.all_var_info) : Len(split(conv.all_var_info[k].key, ".")) = 5

\* C29: from_dict on a raw table whose "Compound Name" keys all have five
\* dot-separated components returns a table with one variable per key and
\* does not raise.
C29_FromDictFiveComponents ==
    (conv.pc = "returned" /\ conv.op = "table_from_dict" /\ FiveComponentKeys) =>
        /\ conv.result.exc = None
        /\ Len(conv.result.variables) = Len(conv.all_var_info)

(***************************************************************************)
(* Controlled vocabularies (core/controlled_vocabularies.py).  A JSON      *)
(* file is its path and whether its text parses; a directory is the        *)
(* listing glob walks, in the order glob yields it; a remote tree is the   *)
(* responses requests.get gives for the file names the loader asks for.    *)
(* conv holds one construction: the loader, its files and its outcome.     *)
(***************************************************************************)

\* e.msg of the json.JSONDecodeError raised for a malformed text, and the
\* position str(e) appends to it.
ParserMessage == "Expecting value"
ParserPosition == ": line 1 column 1 (char 0)"

\* s.endswith(suffix)
endswith(s, suffix) ==
    Len(s) >= Len(suffix) /\ slice(s, Len(s) - Len(suffix) + 1, Len(s)) = suffix

\* sub in s
in_str(sub, s) ==
    \E k \in 1..(Len(s) - Len(sub) + 1) : slice(s, k, k + Len(sub) - 1) = sub

\* Path(p).name
path_name(p) == LET parts == split(p, "/") IN parts[Len(parts)]

\* Path(p).parent.name
parent_name(p) == LET parts == split(p, "/") IN IF Len(parts) > 1 THEN parts[Len(parts) - 1] ELSE ""

\* A repository that was returned, holding what was read from the files of
\* `loaded`; and a construction that raised.
Repository(loaded) == [exc |-> None, message |-> "", loaded |-> loaded]
ConstructionRaised(e, message) == [exc |-> e, message |-> message, loaded |-> {}]

\* The files read one after the other, stopping at the first whose text
\* json.load rejects: `raise ValueError(f"file {path}: {e.msg}")`.
RECURSIVE load_each(_, _, _)
load_each(json_files, k, loaded) ==
    IF k > Len(json_files) THEN Repository(loaded)
    ELSE IF ~json_files[k].wellformed
         THEN ConstructionRaised("ValueError",
                  "file " \o json_files[k].path \o ": " \o ParserMessage)
         ELSE load_each(json_files, k + 1, loaded \cup {json_files[k].path})

\* As load_each, but a malformed file is passed over.
RECURSIVE load_each_skipping(_, _, _)
load_each_skipping(json_files, k, loaded) ==
    IF k > Len(json_files) THEN Repository(loaded)
    ELSE IF ~json_files[k].wellformed
         THEN load_each_skipping(json_files, k + 1, loaded)
         ELSE load_each_skipping(json_files, k + 1, loaded \cup {json_files[k].path})

\* CMIP6ControlledVocabularies.dict_from_json_file(path)
dict_from_json_file(file) == load_each(<<file>>, 1, {})

\* CMIP6ControlledVocabularies.__init__(json_files)
cmip6_init(json_files) == load_each(json_files, 1, {})

\* CMIP6ControlledVocabularies.from_directory(directory):
\* glob.glob(os.path.join(directory, "*.json")), then cls(json_files)
cmip6_from_directory(listing) ==
    cmip6_init(SelectSeq(listing, LAMBDA f :
        parent_name(f.path) = "CMIP6_CVs" /\ endswith(path_name(f.path), ".json")))

\* CMIP6ControlledVocabularies.load_from_git(tag): json.loads(content) of
\* every response, outside any try; the JSONDecodeError leaves as it is.
RECURSIVE cmip6_load_from_git_each(_, _, _)
cmip6_load_from_git_each(responses, k, loaded) ==
    IF k > Len(responses) THEN Repository(loaded)
    ELSE IF ~responses[k].wellformed
         THEN ConstructionRaised("JSONDecodeError", ParserMessage \o ParserPosition)
         ELSE cmip6_load_from_git_each(responses, k + 1, loaded \cup {responses[k].path})

cmip6_load_from_git(responses) == cmip6_load_from_git_each(responses, 1, {})

\* CMIP7ControlledVocabularies._load_individual_files(directory):
\* directory.glob("*.json") without the names starting with "@"
_load_individual_files(listing) ==
    load_each(SelectSeq(listing, LAMBDA f :
        /\ parent_name(f.path) = "experiment"
        /\ endswith(path_name(f.path), ".json")
        /\ ~startswith(path_name(f.path), "@")
        /\ path_name(f.path) \notin {"graph.jsonld", "graph.min.jsonld"}), 1, {})

\* CMIP7ControlledVocabularies._load_project_files(directory):
\* directory.glob("*-list.json")
_load_project_files(listing) ==
    load_each(SelectSeq(listing, LAMBDA f :
        parent_name(f.path) = "project" /\ endswith(path_name(f.path), "-list.json")), 1, {})

\* CMIP7ControlledVocabularies.from_directory(directory): the experiment
\* files, then the project files, then cls(cv_data).
cmip7_from_directory(listing) ==
    LET experiments == _load_individual_files(listing) IN
    IF experiments.exc # None THEN experiments
    ELSE LET project == _load_project_files(listing) IN
         IF project.exc # None THEN project
         ELSE Repository(experiments.loaded \cup project.loaded)

\* CMIP7ControlledVocabularies.load_from_git(tag, branch): r.json() inside
\* `try ... except requests.RequestException: continue`.  The error r.json()
\* raises for a malformed body is a RequestException in requests 2.27 and
\* later and a plain ValueError before; the installation decides which.
cmip7_load_from_git(responses, json_error_is_request_exception) ==
    IF json_error_is_request_exception
    THEN load_each_skipping(responses, 1, {})
    ELSE cmip6_load_from_git_each(responses, 1, {})

CVFile(path, wellformed) == [path |-> path, wellformed |-> wellformed]

\* The directory of the CMIP6 CVs, the tree of the CMIP7 CVs, and the
\* remote files the two load_from_git ask for (a part of the lists in the
\* source).
CMIP6Paths ==
    <<"CMIP6_CVs/CMIP6_frequency.json", "CMIP6_CVs/CMIP6_realm.json",
      "CMIP6_CVs/mip_era.json", "CMIP6_CVs/README.md">>
CMIP7Paths ==
    <<"CMIP7-CVs/experiment/historical.json", "CMIP7-CVs/experiment/@context.json",
      "CMIP7-CVs/project/frequency-list.json", "CMIP7-CVs/project/notes.json">>
CMIP6Urls ==
    <<"CMIP6_CVs/refs/tags/6.2.58.64/CMIP6_DRS.json",
      "CMIP6_CVs/refs/tags/6.2.58.64/CMIP6_activity_id.json",
      "CMIP6_CVs/refs/tags/6.2.58.64/CMIP6_experiment_id.json",
      "CMIP6_CVs/refs/tags/6.2.58.64/CMIP6_frequency.json">>
CMIP7Urls ==
    <<"CMIP7-CVs/src-data/experiment/picontrol.json",
      "CMIP7-CVs/src-data/experiment/historical.json",
      "CMIP7-CVs/src-data/project/frequency-list.json",
      "CMIP7-CVs/src-data/project/license-list.json">>

\* Every way the files of a list can be well-formed or malformed.
Listings(paths) ==
    {[k \in 1..Len(paths) |-> CVFile(paths[k], k \in good)] : good \in SUBSET (1..Len(paths))}

InitVocabularies ==
    /\ locator_class = "ResourceLocator"
    /\ XDG_CACHE_HOME = None
    /\ user_path = NoPath
    /\ remote = "ok"
    /\ fs = <<>>
    /\ call = [c \in Callers |-> IdleCall]
    /\ interface = NoInterface
    /\ ga = NoAttributes
    /\ \E loader \in {"cmip6_from_directory", "cmip6_load_from_git",
                      "cmip7_from_directory", "cmip7_load_from_git"},
          json_error_is_request_exception \in BOOLEAN :
          \E files \in Listings(CASE loader = "cmip6_from_directory" -> CMIP6Paths
                                  [] loader = "cmip6_load_from_git" -> CMIP6Urls
                                  [] loader = "cmip7_from_directory" -> CMIP7Paths
                                  [] OTHER -> CMIP7Urls) :
             /\ (loader # "cmip7_load_from_git" => ~json_error_is_request_exception)
             /\ conv = [pc |-> "vocabularies", loader |-> loader, files |-> files,
                        json_error_is_request_exception |-> json_error_is_request_exception,
                        result |-> Repository({})]

call_cmip6_from_directory ==
    /\ conv.pc = "vocabularies" /\ conv.loader = "cmip6_from_directory"
    /\ conv' = [conv EXCEPT !.pc = "returned", !.result = cmip6_from_directory(conv.files)]
    /\ UNCHANGED <<locator_class, XDG_CACHE_HOME, user_path, remote, fs, call, interface, ga>>

call_cmip6_load_from_git ==
    /\ conv.pc = "vocabularies" /\ conv.loader = "cmip6_load_from_git"
    /\ conv' = [conv EXCEPT !.pc = "returned", !.result = cmip6_load_from_git(conv.files)]
    /\ UNCHANGED <<locator_class, XDG_CACHE_HOME, user_path, remote, fs, call, interface, ga>>

call_cmip7_from_directory ==
    /\ conv.pc = "vocabularies" /\ conv.loader = "cmip7_from_directory"
    /\ conv' = [conv EXCEPT !.pc = "returned", !.result = cmip7_from_directory(conv.files)]
    /\ UNCHANGED <<locator_class, XDG_CACHE_HOME, user_path, remote, fs, call, interface, ga>>

call_cmip7_load_from_git ==
    /\ conv.pc = "vocabularies" /\ conv.loader = "cmip7_load_from_git"
    /\ conv' = [conv EXCEPT !.pc = "returned",
                    !.result = cmip7_load_from_git(conv.files, conv.json_error_is_request_exception)]
    /\ UNCHANGED <<locator_class, XDG_CACHE_HOME, user_path, remote, fs, call, interface, ga>>

NextVocabularies ==
    \/ call_cmip6_from_directory
    \/ call_cmip6_load_from_git
    \/ call_cmip7_from_directory
    \/ call_cmip7_load_from_git

SpecVocabularies == InitVocabularies /\ [][NextVocabularies]_vars

\* The files a loader reads: what its glob matches and it does not skip,
\* or every remote file it asks for.
Consumed ==
    LET f == conv.files IN
    {f[k] : k \in {k \in 1..Len(f) :
        CASE conv.loader = "cmip6_from_directory" -> endswith(path_name(f[k].path), ".json")
          [] conv.loader = "cmip7_from_directory" ->
                \/ /\ parent_name(f[k].path) = "experiment"
                   /\ endswith(path_name(f[k].path), ".json")
                   /\ ~startswith(path_name(f[k].path), "@")
                \/ /\ parent_name(f[k].path) = "project"
                   /\ endswith(path_name(f[k].path), "-list.json")
          [] OTHER -> TRUE}}

MalformedConsumed == {f \in Consumed : ~f.wellformed}

\* The construction failed with a message naming a malformed file it read
\* and the parser's message.
FailsNamingTheFile ==
    /\ conv.result.exc # None
    /\ \E f \in MalformedConsumed : in_str(f.path, conv.result.message)
    /\ in_str(ParserMessage, conv.result.message)

\* C23: whenever a JSON file consumed while building a CMIP6 or CMIP7 CV
\* repository is malformed, construction fails with an error whose message
\* names that file's path and the JSON parser's message; no repository
\* built from the remaining files is returned.
C23_MalformedFileFailsConstruction ==
    (conv.pc = "returned" /\ MalformedConsumed # {}) => FailsNamingTheFile

\* The same for the loaders that read a directory.
MalformedFileFailsFromDirectory ==
    (conv.pc = "returned" /\ MalformedConsumed # {}
        /\ conv.loader \in {"cmip6_from_directory", "cmip7_from_directory"}) => FailsNamingTheFile

(***************************************************************************)
(* Coordinate bounds (std_lib/bounds.py).  A float is modelled as a        *)
(* binary floating-point number with MantissaBits significant bits,        *)
(* counted in halves (the integer x stands for x/2); every arithmetic      *)
(* operation rounds its exact result to the nearest such number, ties to   *)
(* even, as IEEE 754 does with 53 bits.                                    *)
(***************************************************************************)

MantissaBits == 3
\* Coordinate values are the integers 0..MaxLevel; arrays have up to
\* NumLevels points.
MaxLevel == 7
NumLevels == 4

RECURSIVE pow2(_)
pow2(k) == IF k = 0 THEN 1 ELSE 2 * pow2(k - 1)

\* The float nearest to the exact value x, ties to even.
fl(x) ==
    LET a == IF x < 0 THEN -x ELSE x
        e == CHOOSE e \in 0..16 :
                /\ a < pow2(MantissaBits + e)
                /\ (e = 0 \/ a >= pow2(MantissaBits + e - 1))
        unit == pow2(e)
        q == x \div unit
        r == x % unit
    IN IF 2 * r < unit THEN q * unit
       ELSE IF 2 * r > unit THEN (q + 1) * unit
       ELSE IF q % 2 = 0 THEN q * unit ELSE (q + 1) * unit

\* x / 2 and x / 2.0 for a float x: exact, x being even here (no underflow
\* in the range of the inputs).
halved(x) == x \div 2

\* midpoints = (values[:-1] + values[1:]) / 2.0
midpoints_of(values) ==
    [k \in 1..(Len(values) - 1) |-> halved(fl(values[k] + values[k + 1]))]

\* As calculate_bounds_1d, but every cell is symmetric about its point: the
\* upper bound is as far above the point as the lower bound is below it.
calculate_bounds_1d_symmetric_cells(values) ==
    LET n == Len(values) IN
    IF n = 1
    THEN <<(<<fl(values[1] - 1), fl(values[1] + 1)>>)>>
    ELSE IF n = 2
    THEN LET spacing == fl(values[2] - values[1]) IN
         <<(<<fl(values[1] - halved(spacing)), fl(values[1] + halved(spacing))>>),
           (<<fl(values[2] - halved(spacing)), fl(values[2] + halved(spacing))>>)>>
    ELSE LET midpoints == midpoints_of(values) IN
         [i \in 1..n |->
            <<IF i = 1 THEN fl(values[1] - fl(midpoints[1] - values[1])) ELSE midpoints[i - 1],
              IF i = n THEN fl(values[n] + fl(values[n] - midpoints[n - 1]))
              ELSE IF i = 1 THEN midpoints[1]
              ELSE fl(values[i] + fl(values[i] - midpoints[i - 1]))>>]

\* calculate_bounds_1d(coord): the (n, 2) array of bounds, row i the pair
\* <<bounds[i, 0], bounds[i, 1]>>.
calculate_bounds_1d(values) ==
    LET n == Len(values) IN
    IF n = 1
    THEN <<(<<fl(values[1] - 1), fl(values[1] + 1)>>)>>
    ELSE IF n = 2
    THEN LET spacing == fl(values[2] - values[1]) IN
         <<(<<fl(values[1] - halved(spacing)), fl(values[1] + halved(spacing))>>),
           (<<fl(values[2] - halved(spacing)), fl(values[2] + halved(spacing))>>)>>
    ELSE LET midpoints == midpoints_of(values) IN
         [i \in 1..n |->
            <<IF i = 1 THEN fl(values[1] - fl(midpoints[1] - values[1])) ELSE midpoints[i - 1],
              IF i = n THEN fl(values[n] + fl(values[n] - midpoints[n - 1]))
              ELSE midpoints[i]>>]

\* The coordinate arrays: 1 to NumLevels points, each an integer level.
CoordinateArrays ==
    UNION {[1..n -> {2 * c : c \in 0..MaxLevel}] : n \in 1..NumLevels}

InitBounds ==
    /\ locator_class = "ResourceLocator"
    /\ XDG_CACHE_HOME = None
    /\ user_path = NoPath
    /\ remote = "ok"
    /\ fs = <<>>
    /\ call = [c \in Callers |-> IdleCall]
    /\ interface = NoInterface
    /\ ga = NoAttributes
    /\ \E values \in CoordinateArrays :
          conv = [pc |-> "bounds", values |-> values, bounds |-> <<>>]

call_calculate_bounds_1d ==
    /\ conv.pc = "bounds"
    /\ conv' = [conv EXCEPT !.pc = "returned", !.bounds = calculate_bounds_1d(conv.values)]
    /\ UNCHANGED <<locator_class, XDG_CACHE_HOME, user_path, remote, fs, call, interface, ga>>

NextBounds == call_calculate_bounds_1d

SpecBounds == InitBounds /\ [][NextBounds]_vars

\* The points are strictly ascending or strictly descending.
Monotonic(values) ==
    \/ \A k \in 1..(Len(values) - 1) : values[k] < values[k + 1]
    \/ \A k \in 1..(Len(values) - 1) : values[k] > values[k + 1]

\* C24: for a coordinate array of at least 3 monotonically ordered points,
\* the computed bounds satisfy bounds[i,1] == bounds[i+1,0] exactly for
\* every adjacent pair i, i+1.
C24_BoundsContinuity ==
    (conv.pc = "returned" /\ Len(conv.values) >= 3 /\ Monotonic(conv.values)) =>
        \A i \in 1..(Len(conv.values) - 1) : conv.bounds[i][2] = conv.bounds[i + 1][1]

\* Bounds of a descending array of four unevenly spaced levels, where the
\* sum of two neighbours is not itself a float and was rounded.
C24_Witness ==
    /\ conv.pc = "returned"
    /\ Len(conv.values) = 4
    /\ \A k \in 1..3 : conv.values[k] > conv.values[k + 1]
    /\ conv.values[1] - conv.values[2] # conv.values[2] - conv.values[3]
    /\ \E k \in 1..3 : fl(conv.values[k] + conv.values[k + 1]) # conv.values[k] + conv.values[k + 1]
    /\ conv.bounds[2][2] = conv.bounds[3][1]

(***************************************************************************)
(* Repeated load_metadata calls on one CMIP7Interface, with two versions   *)
(* and a metadata file whose header may name its own version.  The         *)
(* filesystem does not change between the calls.                           *)
(***************************************************************************)
ReloadVersions == {"v1.2.2.2", "v1.2.2.1"}

TestDataText == "{\"Compound Name\": {\"test\": \"data\"}, \"Header\": {}}"

\* The files that may exist: the metadata file, and for each version the
\* file in PYCMOR_CMIP7_METADATA_DIR and the first cache location.
ReloadFiles ==
    {MetadataFile} \cup
    {env_cache_path("/meta", v) : v \in ReloadVersions} \cup
    {cache_locations(v)[1] : v \in ReloadVersions}

InitReload ==
    /\ locator_class = "CMIP7MetadataLocator"
    /\ XDG_CACHE_HOME = None
    /\ user_path = NoPath
    /\ remote \in {"ok", "nonzero_exit"}
    /\ \E given \in {Absent, File(TestDataText), File(VersionedMetadataText)},
          cached \in [ReloadFiles \ {MetadataFile} -> {Absent, File(ValidMetadataText)}] :
          fs = [p \in ReloadFiles |-> IF p = MetadataFile THEN given ELSE cached[p]]
    /\ call = [c \in Callers |-> IdleCall]
    /\ interface = FreshInterface
    /\ ga = NoAttributes
    /\ conv = NoConversion

NextReload ==
    \E version \in ReloadVersions, metadata_file \in {NoPath, MetadataFile},
       force_reload \in BOOLEAN, env_metadata_dir \in MetadataDirValues :
       load_metadata(version, metadata_file, force_reload, env_metadata_dir)

SpecReload == InitReload /\ [][NextReload]_vars

\* A load_metadata call that returned normally.
LoadSucceeded(i) == i.pc = "loaded" /\ i.exc = None

\* This step is a load_metadata call with the arguments of the call before.
RepeatsTheCall ==
    /\ interface' # interface
    /\ interface'.version = interface.version
    /\ interface'.metadata_file = interface.metadata_file

\* C25: after a successful load_metadata call, a repeated call with the
\* same arguments and force_reload=False does not reload: the metadata stays
\* the very same object and no file, cache location or external command is
\* accessed; with force_reload=True the metadata is read again into a new
\* object.
C25_RepeatedLoadDoesNotReload ==
    [][(LoadSucceeded(interface) /\ RepeatsTheCall) =>
          IF interface'.force_reload
          THEN LoadSucceeded(interface') =>
                  /\ interface'.object # interface.object
                  /\ interface'.source \in {"file", "cache", "api"}
          ELSE /\ interface'.object = interface.object
               /\ interface'.source = "already_loaded"
               /\ interface'.consulted = {}]_vars

\* The content of the source a call asks for: the text of the given
\* metadata_file, or the data of the requested version (what the cache
\* files and the export hold here).
RequestedContent(i) ==
    IF i.metadata_file # NoPath THEN fs[i.metadata_file].text ELSE ValidMetadataText

\* The version that names the requested content: the header's version of a
\* metadata_file (the argument when the header has none), or the version
\* asked for.
RequestedVersion(i) ==
    IF i.metadata_file # NoPath
    THEN dreq_content_version(fs[i.metadata_file].text, i.version)
    ELSE i.version

\* C30: whenever load_metadata(version, metadata_file) returns normally,
\* after any sequence of earlier load_metadata calls, the interface's
\* metadata is the content of the source requested by that call (the given
\* metadata_file, or the data of the requested version) and its version
\* property identifies that content.
C30_MetadataIsRequestedSource ==
    LoadSucceeded(interface) =>
        /\ interface._metadata = RequestedContent(interface)
        /\ interface._version = RequestedVersion(interface)

\* The same for the first load_metadata call of an interface, as
\* get_cmip7_interface makes it.
FirstLoadIsRequestedSource ==
    (LoadSucceeded(interface) /\ interface.object = 1 /\ interface.source # "already_loaded") =>
        /\ interface._metadata = RequestedContent(interface)
        /\ interface._version = RequestedVersion(interface)

(***************************************************************************)
(* Properties of the paths locate returns and of repeated locate calls.    *)
(***************************************************************************)
\* Path.exists() of a returned path.  The REPO_SUBDIR of a cache entry is
\* in no slot of its own: it exists when the entry is a directory holding
\* the whole cloned tree; a directory with fewer entries holds other files
\* only (a lone test.txt, say), and nothing exists below a regular file.
returned_path_exists(f, p) ==
    IF p \in DOMAIN f THEN exists(f, p)
    ELSE is_dir(f, Parent(p)) /\ f[Parent(p)].n >= NumFiles

\* C26: every non-None path returned by locate exists on the filesystem at
\* the moment it is returned, including a cache path with REPO_SUBDIR
\* appended and a cache path returned right after the fetch reported
\* success.
C26_ReturnedPathExists ==
    \A c \in Callers :
        (call[c].pc = "done" /\ call[c].result.kind = "path") =>
            returned_path_exists(fs, call[c].result.path)

\* The same without the paths that have REPO_SUBDIR appended.
ReturnedPathExistsWithoutSubdir ==
    \A c \in Callers :
        (call[c].pc = "done" /\ call[c].result.kind = "path" /\ REPO_SUBDIR(locator_class) = None) =>
            returned_path_exists(fs, call[c].result.path)

\* One locate() at a time, as in Spec, but a caller may keep the result of
\* its call while another caller makes the next one.
NoCallUnderWay(c) == \A d \in Callers \ {c} : call[d].pc \in {"idle", "done"}

NextSequential ==
    \E c \in Callers :
        \/ \E a \in VersionArgs : NoCallUnderWay(c) /\ locate(c, a)
        \/ \E a \in VersionArgs : NoCallUnderWay(c) /\ cmip6_metadata_locate(c, a)
        \/ git_clone(c)
        \/ copy_file(c)
        \/ run_export(c)
        \/ finish_export(c)
        \/ caller_returns(c)

SpecSequential == Init /\ [][NextSequential]_vars

\* Caller d starts a locate call in this step, for the identity of the call
\* that caller c has finished, while no other call is under way.
LocatesAgain(c, d) ==
    /\ c # d
    /\ call[c].pc = "done"
    /\ call'[c] = call[c]
    /\ call[d].pc = "idle"
    /\ call'[d].pc # "idle"
    /\ call'[d].version = call[c].version
    /\ \A e \in Callers \ {d} : call[e].pc \in {"idle", "done"}

\* C27: after a locate call that returned a path obtained by a successful
\* remote fetch, a second locate call with the same identity and an
\* otherwise unchanged filesystem returns the same path as a cache hit,
\* without invoking the remote fetch again (and without writing anything).
C27_IdempotentReResolution ==
    [][\A c, d \in Callers :
          (LocatesAgain(c, d) /\ call[c].result.tier = "fetch") =>
              /\ call'[d].pc = "done"
              /\ call'[d].result = ReturnsPath("cache", call[c].result.path)
              /\ \A i \in 1..Len(call'[d].consulted) : call'[d].consulted[i] # "fetch"
              /\ fs' = fs]_vars

\* One caller holds the path its fetch produced and another, calling for
\* the same identity, was handed the same path by the cache tier.
C27_Witness ==
    \E c, d \in Callers :
        /\ call[c].pc = "done" /\ call[c].result.tier = "fetch"
        /\ call[d].pc = "done" /\ call[d].result.tier = "cache"
        /\ call[d].version = call[c].version
        /\ call[d].result.path = call[c].result.path
        /\ remote = "ok"

(***************************************************************************)
(* Locators of one class built with and without a version: the cache       *)
(* entries of a resource name side by side.                                *)
(***************************************************************************)
IsolationVersionArgs == {None, "v1.0.0"}

IsolationCachePaths(cls, xdg) ==
    {get_cache_path(cls, xdg, version_of(cls, a)) : a \in IsolationVersionArgs}

IsolationPaths(cls, xdg) ==
    UNION {{SubSeq(p, 1, k) : k \in Len(get_cache_directory(xdg))..Len(p)} :
             p \in IsolationCachePaths(cls, xdg)}
    \cup (IF cls = "CMIP7MetadataLocator"
          THEN {experiments_file(get_cache_path(cls, xdg, version_of(cls, a)),
                                 version_of(cls, a)) : a \in IsolationVersionArgs}
          ELSE {})
    \cup (IF get_packaged_path(cls) # NoPath THEN {get_packaged_path(cls)} ELSE {})
    \cup (IF vendored_location(cls) # NoPath THEN {vendored_location(cls)} ELSE {})

\* What was stored for an identity at its cache path: nothing, or a valid
\* entry (the whole tree, or the metadata file).
StoredEntries(cls) ==
    IF cls = "CMIP7MetadataLocator"
    THEN {Absent, File(ValidMetadataText)}
    ELSE {Absent, Dir(NumFiles)}

\* The filesystem with `slots` at the cache paths: every directory above an
\* existing entry exists, and holds nothing but the entries below it.
IsolationFs(cls, xdg, slots) ==
    [p \in IsolationPaths(cls, xdg) |->
        LET below == \E q \in DOMAIN slots :
                        q # p /\ IsPrefix(p, q) /\ slots[q].type # "absent"
        IN IF p \in DOMAIN slots
           THEN (IF below
                 THEN Dir(IF slots[p].type = "dir" THEN slots[p].n ELSE 0)
                 ELSE slots[p])
           ELSE IF p = get_cache_directory(xdg) \/ below THEN Dir(0) ELSE Absent]

InitIsolation ==
    /\ locator_class \in LocatorClasses
    /\ XDG_CACHE_HOME \in XdgValues
    /\ user_path = NoPath
    /\ remote \in (IF download_kind(locator_class) \in {"git", "export"}
                   THEN {"ok", "nonzero_exit"} ELSE {"ok"})
    /\ \E slots \in [IsolationCachePaths(locator_class, XDG_CACHE_HOME) ->
                        StoredEntries(locator_class)] :
          fs = IsolationFs(locator_class, XDG_CACHE_HOME, slots)
    /\ call = [c \in Callers |-> IdleCall]
    /\ interface = NoInterface
    /\ ga = NoAttributes
    /\ conv = NoConversion

NextIsolation ==
    \E c \in Callers :
        \/ \E a \in IsolationVersionArgs : OthersIdle(c) /\ locate(c, a)
        \/ \E a \in IsolationVersionArgs : OthersIdle(c) /\ cmip6_metadata_locate(c, a)
        \/ git_clone(c)
        \/ copy_file(c)
        \/ run_export(c)
        \/ finish_export(c)
        \/ caller_returns(c)

SpecIsolation == InitIsolation /\ [][NextIsolation]_vars

\* The entry at a cache path holds content of its own: files copied or
\* stored for that identity, not only the entries of other identities that
\* lie below it.
StoredFor(f, p) ==
    /\ exists(f, p)
    /\ (is_dir(f, p) => f[p].n > 0)
    /\ (~is_dir(f, p) => f[p].text # "")

\* C28: a cache lookup for identity (resource_name, version) only accepts
\* content that was stored for that same (resource_name, version): content
\* cached for one version of a resource (or for its unversioned identity) is
\* never returned as a cache hit for a different version or for the
\* unversioned identity.
C28_CacheIsolation ==
    \A c \in Callers :
        (call[c].pc = "done" /\ call[c].result.tier = "cache") =>
            StoredFor(fs, CachePathOf(c))

\* The same for the lookups of versioned identities.
VersionedLookupsAreIsolated ==
    \A c \in Callers :
        (call[c].pc = "done" /\ call[c].result.tier = "cache" /\ call[c].version # None) =>
            StoredFor(fs, CachePathOf(c))

====
